---- MODULE Spec2Model ----
(***************************************************************************)
(* A model of hey-api-builders: the schema canonicalizer (irToSchema), the *)
(* deduplicating schema registry (registerSchemaDef) and the mock          *)
(* synthesis engines (static code, runtime generateMock, Zod notation).    *)
(*                                                                         *)
(* JavaScript values are modelled as tagged records.  An object keeps its  *)
(* entries as a sequence of <<key, value>> pairs, so insertion order is    *)
(* part of the value exactly as in JavaScript.                             *)
(***************************************************************************)
EXTENDS Integers, Sequences, FiniteSets, TLC

VARIABLES
    ctx,        \* RegistrationContext of registerSchemaDef
    regLog,     \* the register calls made so far: schema, typeName, returned symbol
    all,        \* irToSchema: the raw fragments by name (allRawByName)
    stack,      \* irToSchema: the active calls, outermost first
    seen,       \* irToSchema: the seenSet shared by the calls of one canonicalization
    calls,      \* irToSchema: the number of calls made so far
    result,     \* irToSchema: what the outermost call returned
    refLog,     \* irToSchema: the $ref calls that returned, with what they returned
    hits,       \* irToSchema: the calls the seenSet guard cut short
    cpc,        \* irToSchema: "idle", "run" or "done"
    syn         \* mock synthesis: the call in progress or finished, of one engine

regVars == <<ctx, regLog>>
canonVars == <<all, stack, seen, calls, result, refLog, hits, cpc>>
synVars == <<syn>>
vars == <<regVars, canonVars, synVars>>

-----------------------------------------------------------------------------
(* JavaScript values *)

JUndef == [k |-> "undef"]
JNull == [k |-> "null"]
JStr(s) == [k |-> "str", s |-> s]
JNum(n) == [k |-> "num", n |-> n]
JBool(b) == [k |-> "bool", b |-> b]
JArr(items) == [k |-> "arr", e |-> items]
JObj(entries) == [k |-> "obj", e |-> entries]

IsObj(v) == v.k = "obj"
IsArr(v) == v.k = "arr"

Keys(o) == [i \in 1..Len(o.e) |-> o.e[i][1]]
KeySet(o) == {o.e[i][1] : i \in 1..Len(o.e)}
HasKey(o, key) == IsObj(o) /\ key \in KeySet(o)
Get(o, key) ==
    IF HasKey(o, key)
    THEN o.e[CHOOSE i \in 1..Len(o.e) : o.e[i][1] = key][2]
    ELSE JUndef

\* o[key] = value: an existing key keeps its position, a new key is appended
SetKey(o, key, value) ==
    IF HasKey(o, key)
    THEN JObj([i \in 1..Len(o.e) |-> IF o.e[i][1] = key THEN <<key, value>> ELSE o.e[i]])
    ELSE JObj(Append(o.e, <<key, value>>))

-----------------------------------------------------------------------------
(* deepSort, stableStringify *)

\* the keys the model uses, in localeCompare order
KeyOrder ==
    <<"$ref", "a", "b", "const", "enum", "format", "items", "properties", "type">>
KeyRank(key) == CHOOSE i \in 1..Len(KeyOrder) : KeyOrder[i] = key
localeCompare(x, y) == KeyRank(x) - KeyRank(y)

RECURSIVE InsertSorted(_, _)
InsertSorted(sorted, entry) ==
    IF sorted = <<>> THEN <<entry>>
    ELSE IF localeCompare(entry[1], Head(sorted)[1]) < 0
         THEN <<entry>> \o sorted
         ELSE <<Head(sorted)>> \o InsertSorted(Tail(sorted), entry)

RECURSIVE SortFrom(_, _)
SortFrom(entries, acc) ==
    IF entries = <<>> THEN acc
    ELSE SortFrom(Tail(entries), InsertSorted(acc, Head(entries)))

SortEntriesUnsorted(entries) == entries

\* .sort((a, b) => a[0].localeCompare(b[0]))
SortEntries(entries) == SortFrom(entries, <<>>)

\* .filter(([, v]) => typeof v !== 'undefined')
FilterDefined(entries) == SelectSeq(entries, LAMBDA en : en[2] # JUndef)

RECURSIVE deepSort(_)
deepSort(value) ==
    IF IsArr(value)
    THEN JArr([i \in 1..Len(value.e) |-> deepSort(value.e[i])])
    ELSE IF IsObj(value)
    THEN LET sorted == SortEntries(FilterDefined(value.e))
         IN JObj([i \in 1..Len(sorted) |-> <<sorted[i][1], deepSort(sorted[i][2])>>])
    ELSE value

RECURSIVE JoinTokens(_, _)
JoinTokens(parts, sep) ==
    IF parts = <<>> THEN <<>>
    ELSE IF Len(parts) = 1 THEN parts[1]
    ELSE parts[1] \o sep \o JoinTokens(Tail(parts), sep)

\* JSON.stringify as a token sequence; an undefined-valued key is left out and an
\* undefined array element is written null
RECURSIVE JSONstringify(_)
JSONstringify(v) ==
    CASE v.k = "str" -> <<"\"", v.s, "\"">>
      [] v.k = "num" -> <<ToString(v.n)>>
      [] v.k = "bool" -> <<IF v.b THEN "true" ELSE "false">>
      [] v.k = "null" -> <<"null">>
      [] v.k = "undef" -> <<"null">>
      [] v.k = "arr" ->
            <<"[">> \o JoinTokens([i \in 1..Len(v.e) |-> JSONstringify(v.e[i])], <<",">>) \o <<"]">>
      [] v.k = "obj" ->
            LET def == FilterDefined(v.e)
            IN <<"{">>
               \o JoinTokens([i \in 1..Len(def) |->
                                <<"\"", def[i][1], "\"", ":">> \o JSONstringify(def[i][2])], <<",">>)
               \o <<"}">>

stableStringify(obj) == JSONstringify(deepSort(obj))

-----------------------------------------------------------------------------
(* registerSchemaDef *)

\* getSchemaConstName: `${typeName}SchemaDef`
getSchemaConstName(typeName) == <<typeName, "SchemaDef">>

registerHit(c, schema) == stableStringify(schema) \in DOMAIN c.schemaDefHashes

\* registerSchemaDef without the numeric suffix
registerSymbolBare(c, schema, typeName) ==
    IF registerHit(c, schema)
    THEN c.schemaDefHashes[stableStringify(schema)]
    ELSE getSchemaConstName(typeName)

registerSymbol(c, schema, typeName) ==
    IF registerHit(c, schema)
    THEN c.schemaDefHashes[stableStringify(schema)]
    ELSE getSchemaConstName(typeName)
         \o (IF typeName \in DOMAIN c.schemaDefNames
             THEN <<"_", ToString(c.schemaDefIndex)>>
             ELSE <<>>)

registerCtx(c, schema, typeName) ==
    IF registerHit(c, schema)
    THEN c
    ELSE LET constName == registerSymbol(c, schema, typeName)
         IN [schemaDefs |-> [n \in DOMAIN c.schemaDefs \cup {constName} |->
                                IF n = constName THEN schema ELSE c.schemaDefs[n]],
             schemaDefNames |-> [t \in DOMAIN c.schemaDefNames \cup {typeName} |->
                                IF t = typeName THEN constName ELSE c.schemaDefNames[t]],
             schemaDefHashes |-> [h \in DOMAIN c.schemaDefHashes \cup {stableStringify(schema)} |->
                                IF h = stableStringify(schema) THEN constName
                                ELSE c.schemaDefHashes[h]],
             schemaDefIndex |-> IF typeName \in DOMAIN c.schemaDefNames
                                THEN c.schemaDefIndex + 1
                                ELSE c.schemaDefIndex]

-----------------------------------------------------------------------------
(* the schemas handed to the registry *)

MaxRegs == 3

TypeNames == {"User", "Pet"}

Perms(n) == {p \in [1..n -> 1..n] : \A i, j \in 1..n : p[i] = p[j] => i = j}

RECURSIVE SeqProduct(_)
\* all sequences that take their i-th element from the i-th set
SeqProduct(sets) ==
    IF sets = <<>> THEN {<<>>}
    ELSE {<<x>> \o rest : x \in Head(sets), rest \in SeqProduct(Tail(sets))}

RECURSIVE KeyOrders(_)
\* every re-ordering of the keys of v, at every depth
KeyOrders(v) ==
    IF IsObj(v)
    THEN LET n == Len(v.e)
             vals == SeqProduct([i \in 1..n |-> KeyOrders(v.e[i][2])])
         IN {JObj([i \in 1..n |-> <<v.e[p[i]][1], vs[p[i]]>>]) : p \in Perms(n), vs \in vals}
    ELSE IF IsArr(v)
    THEN {JArr(vs) : vs \in SeqProduct([i \in 1..Len(v.e) |-> KeyOrders(v.e[i])])}
    ELSE {v}

TypeOnly(t) == JObj(<< <<"type", JStr(t)>> >>)

BaseSchemas ==
    { JObj(<< <<"type", JStr("object")>>,
              <<"properties", JObj(<< <<"a", TypeOnly("string")>>, <<"b", TypeOnly("number")>> >>)>> >>),
      JObj(<< <<"type", JStr("string")>>, <<"format", JUndef>> >>),
      JObj(<< <<"type", JStr("array")>>,
              <<"a", JArr(<<JStr("a"), JStr("b")>>)>> >>),
      JObj(<< <<"type", JStr("array")>>,
              <<"a", JArr(<<JStr("b"), JStr("a")>>)>> >>) }

RegSchemas == UNION {KeyOrders(s) : s \in BaseSchemas}

-----------------------------------------------------------------------------
(* the registry as a state machine *)

EmptyCtx ==
    [schemaDefs |-> <<>>, schemaDefNames |-> <<>>, schemaDefHashes |-> <<>>, schemaDefIndex |-> 1]

RegIdle ==
    /\ ctx = EmptyCtx
    /\ regLog = <<>>

CanonIdle ==
    /\ all = <<>>
    /\ stack = <<>>
    /\ seen = {}
    /\ calls = 0
    /\ result = JUndef
    /\ refLog = {}
    /\ hits = {}
    /\ cpc = "idle"

SynIdle ==
    syn = [engine |-> "idle", pc |-> "idle"]

InitReg ==
    /\ RegIdle
    /\ CanonIdle
    /\ SynIdle

Register(schema, typeName) ==
    /\ Len(regLog) < MaxRegs
    /\ ctx' = registerCtx(ctx, schema, typeName)
    /\ regLog' = Append(regLog, [schema |-> schema, typeName |-> typeName,
                                 symbol |-> registerSymbol(ctx, schema, typeName)])
    /\ UNCHANGED <<canonVars, synVars>>

NextReg == \E schema \in RegSchemas, typeName \in TypeNames : Register(schema, typeName)

SpecReg == InitReg /\ [][NextReg]_vars

-----------------------------------------------------------------------------
(* the raw fragments irToSchema runs on *)

MaxFrags == 4

Names == <<"A", "B">>
PropKeys == <<"a", "b">>
NameSet == {Names[i] : i \in 1..Len(Names)}

\* an inline fragment: { type: 'string' } or { $ref: '#/components/schemas/<to>' }
ChildShapes ==
    {[kind |-> "leaf", to |-> ""]}
    \cup {[kind |-> "ref", to |-> t] : t \in NameSet \cup {"Missing"}}

\* a named fragment: a string, a $ref, an array of one inline fragment, or an
\* object whose properties are inline fragments
Shapes ==
    {[kind |-> "leaf", to |-> "", kids |-> <<>>]}
    \cup {[kind |-> "ref", to |-> t, kids |-> <<>>] : t \in NameSet \cup {"Missing"}}
    \cup {[kind |-> "array", to |-> "", kids |-> <<c>>] : c \in ChildShapes}
    \cup {[kind |-> "object", to |-> "", kids |-> kids] :
            kids \in UNION {[1..n -> ChildShapes] : n \in 1..Len(PropKeys)}}

FragCount(a) ==
    LET RECURSIVE Sum(_)
        Sum(S) == IF S = {} THEN 0
                  ELSE LET n == CHOOSE n \in S : TRUE
                       IN 1 + Len(a[n].kids) + Sum(S \ {n})
    IN Sum(DOMAIN a)

Arenas ==
    {a \in UNION {[{Names[i] : i \in 1..k} -> Shapes] : k \in 1..Len(Names)} :
        FragCount(a) <= MaxFrags}

\* a fragment's identity: <<name>> for a named fragment, <<name, i>> for its i-th
\* inline fragment
Root == <<Names[1]>>
Frag(id) == IF Len(id) = 1 THEN all[id[1]] ELSE all[id[1]].kids[id[2]]
Kids(id) == IF Len(id) = 1 THEN [i \in 1..Len(all[id[1]].kids) |-> <<id[1], i>>] ELSE <<>>

RefPrefix == "#/components/schemas/"
\* ir.$ref, a prefix and a name
Ref(id) == IF Frag(id).kind = "ref" THEN <<RefPrefix, Frag(id).to>> ELSE <<>>
\* ir.$ref.replace('#/components/schemas/', '')
RefName(ref) == IF ref[1] = RefPrefix THEN ref[2] ELSE "?"
\* ir.type
TypeOf(id) == IF Frag(id).kind = "leaf" THEN "string" ELSE Frag(id).kind

-----------------------------------------------------------------------------
(* irToSchema, one call or return per step *)

Unknown == JObj(<<>>)

SeenHasNever(s, id) == FALSE

\* seenSet.has(ir)
SeenHas(s, id) == id \in s

\* the fragments whose call has passed the seenSet guard and has not returned
Active(stk) == {stk[i].ir : i \in {j \in 1..Len(stk) : stk[j].pc \in {"ref", "body"}}}

Frame(id, stk) == [ir |-> id, pc |-> "enter", i |-> 1, out |-> Unknown, chain |-> Active(stk)]

Top == stack[Len(stack)]
SetTop(f) == [stack EXCEPT ![Len(stack)] = f]

\* irToSchema(irSchema, all) as collectSchemas calls it: a fresh seenSet
InitCanon ==
    /\ RegIdle
    /\ SynIdle
    /\ all \in Arenas
    /\ stack = <<Frame(Root, <<>>)>>
    /\ seen = {}
    /\ calls = 1
    /\ result = JUndef
    /\ refLog = {}
    /\ hits = {}
    /\ cpc = "run"

\* if (seenSet.has(ir)) return {}
EnterSeen ==
    /\ cpc = "run" /\ Top.pc = "enter"
    /\ SeenHas(seen, Top.ir)
    /\ stack' = SetTop([Top EXCEPT !.pc = "ret", !.out = Unknown])
    /\ hits' = hits \cup {[ir |-> Top.ir, active |-> Top.ir \in Top.chain]}
    /\ UNCHANGED <<all, seen, calls, result, refLog, cpc, regVars, synVars>>

\* seenSet.add(ir); if (ir.$ref) return target ? irToSchema(target, all, seenSet) : {}
EnterRef ==
    /\ cpc = "run" /\ Top.pc = "enter"
    /\ ~SeenHas(seen, Top.ir)
    /\ Ref(Top.ir) # <<>>
    /\ seen' = seen \cup {Top.ir}
    /\ LET name == RefName(Ref(Top.ir))
       IN IF name \in DOMAIN all
          THEN /\ stack' = Append(SetTop([Top EXCEPT !.pc = "ref"]),
                                  Frame(<<name>>, SetTop([Top EXCEPT !.pc = "ref"])))
               /\ calls' = calls + 1
          ELSE /\ stack' = SetTop([Top EXCEPT !.pc = "ret", !.out = Unknown])
               /\ calls' = calls
    /\ UNCHANGED <<all, result, refLog, hits, cpc, regVars, synVars>>

\* seenSet.add(ir); out.type = ir.type; out.properties = {}
EnterNode ==
    /\ cpc = "run" /\ Top.pc = "enter"
    /\ ~SeenHas(seen, Top.ir)
    /\ Ref(Top.ir) = <<>>
    /\ seen' = seen \cup {Top.ir}
    /\ stack' = SetTop([Top EXCEPT
            !.pc = "body",
            !.out = IF Frag(Top.ir).kind = "object"
                    THEN JObj(<< <<"type", JStr(TypeOf(Top.ir))>>, <<"properties", JObj(<<>>)>> >>)
                    ELSE JObj(<< <<"type", JStr(TypeOf(Top.ir))>> >>)])
    /\ UNCHANGED <<all, calls, result, refLog, hits, cpc, regVars, synVars>>

\* out.properties[k] = irToSchema(v, all, seenSet); out.items = irToSchema(ir.items, all, seenSet)
CallChild ==
    /\ cpc = "run" /\ Top.pc = "body"
    /\ Top.i <= Len(Kids(Top.ir))
    /\ stack' = Append(stack, Frame(Kids(Top.ir)[Top.i], stack))
    /\ calls' = calls + 1
    /\ UNCHANGED <<all, seen, result, refLog, hits, cpc, regVars, synVars>>

\* the value the caller stores when its callee returns value
Deliver(f, value) ==
    IF f.pc = "ref"
    THEN [f EXCEPT !.pc = "ret", !.out = value]
    ELSE [f EXCEPT
            !.i = f.i + 1,
            !.out = IF Frag(f.ir).kind = "object"
                    THEN SetKey(f.out, "properties",
                                SetKey(Get(f.out, "properties"), PropKeys[f.i], value))
                    ELSE SetKey(f.out, "items", value)]

Finished(f) == f.pc = "ret" \/ (f.pc = "body" /\ f.i > Len(Kids(f.ir)))

\* return out (or the early return of a value): the caller goes on with it
Return ==
    /\ cpc = "run" /\ Finished(Top)
    /\ refLog' = IF Ref(Top.ir) # <<>>
                 THEN refLog \cup {[ref |-> Top.ir, chain |-> Top.chain, value |-> Top.out]}
                 ELSE refLog
    /\ IF Len(stack) = 1
       THEN /\ stack' = <<>>
            /\ result' = Top.out
            /\ cpc' = "done"
       ELSE /\ stack' = [SubSeq(stack, 1, Len(stack) - 1) EXCEPT
                            ![Len(stack) - 1] = Deliver(stack[Len(stack) - 1], Top.out)]
            /\ UNCHANGED <<result, cpc>>
    /\ UNCHANGED <<all, seen, calls, hits, regVars, synVars>>

NextCanon == EnterSeen \/ EnterRef \/ EnterNode \/ CallChild \/ Return

SpecCanon == InitCanon /\ [][NextCanon]_vars

-----------------------------------------------------------------------------
(* text: a JavaScript string is the sequence of its characters *)

Whitespace == {" ", "\n", "\t"}
WordChars ==
    {"a", "b", "c", "d", "e", "f", "g", "h", "i", "j", "k", "l", "m", "n", "o", "p", "q",
     "r", "s", "t", "u", "v", "w", "x", "y", "z", "_", "0", "1", "2", "3", "4", "5", "6",
     "7", "8", "9"}
\* /^[a-zA-Z_]\w*$/ : the texts here hold no capital letters
IdentStart == WordChars \ {"0", "1", "2", "3", "4", "5", "6", "7", "8", "9"}

\* str.substring(from, to) with 0-based from and exclusive to
Substring(str, from, to) == SubSeq(str, from + 1, to)

\* str.indexOf(needle), 0-based, -1 when absent
IndexOf(str, needle) ==
    LET at == {i \in 0..(Len(str) - Len(needle)) : Substring(str, i, i + Len(needle)) = needle}
    IN IF at = {} THEN -1 ELSE CHOOSE i \in at : \A j \in at : i <= j

\* str.includes(needle)
Includes(str, needle) == IndexOf(str, needle) # -1

\* str.trim()
Trim(str) ==
    LET ink == {i \in 1..Len(str) : str[i] \notin Whitespace}
    IN IF ink = {} THEN <<>>
       ELSE SubSeq(str, CHOOSE i \in ink : \A j \in ink : i <= j,
                        CHOOSE i \in ink : \A j \in ink : j <= i)

\* parts.join(sep)
RECURSIVE Join(_, _)
Join(parts, sep) ==
    IF parts = <<>> THEN <<>>
    ELSE IF Len(parts) = 1 THEN parts[1]
    ELSE parts[1] \o sep \o Join(Tail(parts), sep)

\* the ZOD_STRINGS the generator and the reader share
ZOD_OBJECT == <<"z", ".", "o", "b", "j", "e", "c", "t", "(", "{">>
ZOD_ARRAY == <<"z", ".", "a", "r", "r", "a", "y", "(">>
ZOD_ENUM == <<"z", ".", "e", "n", "u", "m", "(">>
ZOD_STRING == <<"z", ".", "s", "t", "r", "i", "n", "g", "(", ")">>
ZOD_NUMBER == <<"z", ".", "n", "u", "m", "b", "e", "r", "(", ")">>
ZOD_BOOLEAN == <<"z", ".", "b", "o", "o", "l", "e", "a", "n", "(", ")">>
ZOD_UNION == <<"z", ".", "u", "n", "i", "o", "n", "(">>
ZOD_NULL == <<"z", ".", "n", "u", "l", "l", "(", ")">>
ZOD_OPTIONAL == <<".", "o", "p", "t", "i", "o", "n", "a", "l", "(", ")">>
ZOD_REGEX == <<".", "r", "e", "g", "e", "x", "(">>
\* the text the generator's tests fix for a schema it has no type for
ZOD_UNKNOWN == <<"z", ".", "u", "n", "k", "n", "o", "w", "n", "(", ")">>

-----------------------------------------------------------------------------
(* the schemas synthesis runs on: a record per schema, property names as text *)

NoProps == [has |-> FALSE, e |-> <<>>]
Props(entries) == [has |-> TRUE, e |-> entries]
Sch(type, pattern, properties, required) ==
    [type |-> type, pattern |-> pattern, properties |-> properties, required |-> required]

\* { type: 'string' }, { type: 'string', pattern }, { type: 'null' }, {}
SString == Sch("string", <<>>, NoProps, {})
SPattern(pattern) == Sch("string", pattern, NoProps, {})
SNull == Sch("null", <<>>, NoProps, {})
SAny == Sch("", <<>>, NoProps, {})
\* { type: 'object', properties, required }
SObject(entries, required) == Sch("object", <<>>, Props(entries), required)

-----------------------------------------------------------------------------
(* ZodSchemaGenerator: the text of a schema *)

\* generateZodString
generateZodString(schema) ==
    ZOD_STRING \o (IF schema.pattern # <<>>
                   THEN ZOD_REGEX \o <<"(", "/">> \o schema.pattern \o <<"/", ")">>
                   ELSE <<>>)

\* /^[a-zA-Z_]\w*$/.test(key) ? key : `"${key}"`
safePropName(key) ==
    IF key # <<>> /\ key[1] \in IdentStart /\ \A i \in 1..Len(key) : key[i] \in WordChars
    THEN key
    ELSE <<"\"">> \o key \o <<"\"">>

RECURSIVE generateZodSchemaInternal(_)
\* generateZodObject
generateZodObject(schema) ==
    IF ~schema.properties.has THEN <<"z", ".", "o", "b", "j", "e", "c", "t", "(", "{", "}", ")">>
    ELSE LET ents == schema.properties.e
             properties == [i \in 1..Len(ents) |->
                 safePropName(ents[i][1]) \o <<":", " ">>
                 \o generateZodSchemaInternal(ents[i][2])
                 \o (IF ents[i][1] \notin schema.required THEN ZOD_OPTIONAL ELSE <<>>)]
         IN <<"z", ".", "o", "b", "j", "e", "c", "t", "(", "{", "\n", " ", " ">> \o Join(properties, <<",", "\n", " ", " ">>) \o <<"\n", "}", ")">>

\* generateZodSchemaInternal with generateZodForSingleType
generateZodSchemaInternal(schema) ==
    IF schema.type = "string" THEN generateZodString(schema)
    ELSE IF schema.type = "null" THEN ZOD_NULL
    ELSE IF schema.type = "object" THEN generateZodObject(schema)
    ELSE IF schema.type = "" /\ schema.properties.has THEN generateZodObject(schema)
    ELSE ZOD_UNKNOWN

-----------------------------------------------------------------------------
(* ZodMockGenerator: reading the properties back out of the text *)

Quotes == {"\"", "'"}
Openers == {"(", "[", "{"}
Closers == {")", "]", "}"}

\* the depths after each of the characters lo..hi (0-based) of the while loop of
\* extractObjectProperties, entered with depth; the loop is run by halves
RECURSIVE BraceDepths(_, _, _, _)
BraceDepths(str, lo, hi, depth) ==
    IF lo > hi THEN <<>>
    ELSE IF lo = hi
    THEN <<IF str[lo + 1] = "{" THEN depth + 1
           ELSE IF str[lo + 1] = "}" THEN depth - 1
           ELSE depth>>
    ELSE LET mid == (lo + hi) \div 2
             left == BraceDepths(str, lo, mid, depth)
         IN left \o BraceDepths(str, mid + 1, hi, left[Len(left)])

\* extractObjectProperties: the loop stops after the first character that brings
\* the depth to 0; null is [ok |-> FALSE]
extractObjectProperties(zodSchemaString) ==
    LET objectStart == IndexOf(zodSchemaString, ZOD_OBJECT)
        contentStart == objectStart + Len(ZOD_OBJECT)
        depths == BraceDepths(zodSchemaString, contentStart, Len(zodSchemaString) - 1, 1)
        zeros == {k \in 1..Len(depths) : depths[k] = 0}
        i == contentStart + (CHOOSE k \in zeros : \A j \in zeros : k <= j)
    IN IF objectStart = -1 \/ zeros = {} THEN [ok |-> FALSE, s |-> <<>>]
       ELSE [ok |-> TRUE, s |-> Substring(zodSchemaString, contentStart, i - 1)]

\* the scanner state after one more character: shared by splitObjectProperties and
\* hasBalancedBrackets
ScanChar(str, i, st) ==
    LET char == str[i + 1]
    IN IF ~st.inString /\ char \in Quotes
       THEN [st EXCEPT !.inString = TRUE, !.stringChar = char]
       ELSE IF st.inString /\ char = st.stringChar /\ (i = 0 \/ str[i] # "\\")
       THEN [st EXCEPT !.inString = FALSE, !.stringChar = ""]
       ELSE IF ~st.inString /\ char \in Openers THEN [st EXCEPT !.depth = st.depth + 1]
       ELSE IF ~st.inString /\ char \in Closers THEN [st EXCEPT !.depth = st.depth - 1]
       ELSE st

ScanStart == [depth |-> 0, inString |-> FALSE, stringChar |-> ""]

\* the scanner states after each of the characters lo..hi (0-based), entered with
\* st; the loop is run by halves
RECURSIVE ScanStates(_, _, _, _)
ScanStates(str, lo, hi, st) ==
    IF lo > hi THEN <<>>
    ELSE IF lo = hi THEN <<ScanChar(str, lo, st)>>
    ELSE LET mid == (lo + hi) \div 2
             left == ScanStates(str, lo, mid, st)
         IN left \o ScanStates(str, mid + 1, hi, left[Len(left)])

\* hasBalancedBrackets: false at the first negative depth, else depth === 0
hasBalancedBrackets(str) ==
    LET states == ScanStates(str, 0, Len(str) - 1, ScanStart)
    IN /\ \A k \in 1..Len(states) : states[k].depth >= 0
       /\ (IF states = <<>> THEN 0 ELSE states[Len(states)].depth) = 0

\* /^(\w+|"[^"]+"|'[^']+')$/.test(key)
keyValid(key) ==
    \/ key # <<>> /\ \A i \in 1..Len(key) : key[i] \in WordChars
    \/ /\ Len(key) >= 3
       /\ key[1] \in Quotes
       /\ key[Len(key)] = key[1]
       /\ \A i \in 2..(Len(key) - 1) : key[i] # key[1]

\* isCompleteProperty
isCompleteProperty(str) ==
    LET colonIndex == IndexOf(str, <<":">>)
        key == Trim(Substring(str, 0, colonIndex))
        value == Trim(Substring(str, colonIndex + 1, Len(str)))
    IN IF colonIndex = -1 THEN FALSE
       ELSE keyValid(key) /\ Len(value) > 0 /\ hasBalancedBrackets(value)

\* splitObjectProperties from the split at index start on: current is str from
\* start up to the index i the loop is at; states[i + 1] is the scanner before the
\* character at i, which a split leaves as it is
RECURSIVE SplitFrom(_, _, _, _)
SplitFrom(str, states, start, parts) ==
    LET current(i) == Trim(Substring(str, start, i))
        splits == {i \in start..(Len(str) - 1) :
                     /\ str[i + 1] = ","
                     /\ ~states[i + 1].inString
                     /\ states[i + 1].depth = 0
                     /\ current(i) # <<>>
                     /\ isCompleteProperty(current(i))}
        first == CHOOSE i \in splits : \A j \in splits : i <= j
    IN IF splits = {}
       THEN IF current(Len(str)) # <<>> THEN Append(parts, current(Len(str))) ELSE parts
       ELSE SplitFrom(str, states, first + 1, Append(parts, current(first)))

splitObjectProperties(str) ==
    SplitFrom(str, <<ScanStart>> \o ScanStates(str, 0, Len(str) - 1, ScanStart), 0, <<>>)

\* the length of what (\w+|"[^"]+"|'[^']+') matches at the start of str, 0 for none
KeyMatchLen(str) ==
    IF str = <<>> THEN 0
    ELSE IF str[1] \in WordChars
    THEN LET stops == {i \in 1..Len(str) : str[i] \notin WordChars}
         IN IF stops = {} THEN Len(str) ELSE (CHOOSE i \in stops : \A j \in stops : i <= j) - 1
    ELSE IF str[1] \in Quotes
    THEN LET closes == {i \in 2..Len(str) : str[i] = str[1]}
             close == CHOOSE i \in closes : \A j \in closes : i <= j
         IN IF closes = {} \/ close < 3 THEN 0 ELSE close
    ELSE 0

\* trimmed.match(/^(\w+|"[^"]+"|'[^']+'):\s*(.+)$/s), then the key without its
\* quotes and the trimmed schema
matchProperty(trimmed) ==
    LET n == KeyMatchLen(trimmed)
    IN IF n > 0 /\ Len(trimmed) >= n + 2 /\ trimmed[n + 1] = ":"
       THEN [ok |-> TRUE,
             key |-> SelectSeq(SubSeq(trimmed, 1, n), LAMBDA c : c \notin Quotes),
             schema |-> Trim(SubSeq(trimmed, n + 2, Len(trimmed)))]
       ELSE [ok |-> FALSE, key |-> <<>>, schema |-> <<>>]

\* parseObjectProperties: the [key, schema] pairs
parseObjectProperties(propertiesString) ==
    LET propertyStrings == splitObjectProperties(Trim(propertiesString))
        matches == [i \in 1..Len(propertyStrings) |-> matchProperty(Trim(propertyStrings[i]))]
        kept == SelectSeq(matches, LAMBDA m : m.ok)
    IN [i \in 1..Len(kept) |-> <<kept[i].key, kept[i].schema>>]

-----------------------------------------------------------------------------
(* ZodMockGenerator: the mock of a text *)

MaxDraws == 2

\* Math.random() and the probabilities, in tenths
RandVals == {0, 9}
ZodDefaultProbability == 8

\* a ?? b
Nullish(a, b) == IF a \in {JUndef, JNull} THEN b ELSE a

ZodMockGeneratorJsfDefault(options) ==
    [useDefault |-> Nullish(options.useDefault, JBool(FALSE)),
     useExamples |-> Nullish(options.useExamples, JBool(FALSE)),
     alwaysIncludeOptionals |-> Nullish(options.alwaysIncludeOptionals, JBool(FALSE)),
     optionalsProbability |-> Nullish(options.optionalsProbability, JNum(10)),
     omitNulls |-> Nullish(options.omitNulls, JBool(FALSE))]

\* the constructor: this.options
ZodMockGenerator(options) ==
    [useDefault |-> Nullish(options.useDefault, JBool(FALSE)),
     useExamples |-> Nullish(options.useExamples, JBool(FALSE)),
     alwaysIncludeOptionals |-> Nullish(options.alwaysIncludeOptionals, JBool(FALSE)),
     optionalsProbability |-> Nullish(options.optionalsProbability, JNum(ZodDefaultProbability)),
     omitNulls |-> Nullish(options.omitNulls, JBool(FALSE))]

\* a value of a generator whose content is not looked at
JSome(kind) == [k |-> "some", of |-> kind]

\* what a call gives back: its value, the next position in the random stream and the
\* probabilities it compared Math.random() with
Ret(v, pos, probs) == [v |-> v, pos |-> pos, probs |-> probs]

RECURSIVE generateFromSchemaString(_, _, _, _, _)
RECURSIVE ObjectStep(_, _, _, _, _, _)
RECURSIVE ObjectLoop(_, _, _, _, _, _, _, _)

\* generateObjectMock
generateObjectMock(opts, zodSchemaString, overrides, rnd, pos) ==
    LET propertiesString == extractObjectProperties(zodSchemaString)
    IN IF ~propertiesString.ok \/ propertiesString.s = <<>>
       THEN Ret(JObj(<<>>), pos, {})
       ELSE ObjectLoop(opts, parseObjectProperties(propertiesString.s), 1, overrides,
                       JObj(<<>>), rnd, pos, {})

\* the for loop of generateObjectMock from the i-th property on
ObjectLoop(opts, properties, i, overrides, mock, rnd, pos, probs) ==
    IF i > Len(properties) THEN Ret(mock, pos, probs)
    ELSE LET r == ObjectStep(opts, properties[i], overrides, mock, rnd, pos)
         IN ObjectLoop(opts, properties, i + 1, overrides, r.v, rnd, r.pos, probs \cup r.probs)

\* one round of the for loop: the mock after the property [key, propSchema]
ObjectStep(opts, property, overrides, mock, rnd, pos) ==
    LET key == property[1]
        propSchema == property[2]
        isOptional == Includes(propSchema, <<".", "o", "p", "t", "i", "o", "n", "a", "l", "(", ")">>)
        asks == isOptional /\ opts.alwaysIncludeOptionals # JBool(TRUE)
        probability == IF opts.optionalsProbability = JBool(FALSE)
                       THEN JNum(ZodDefaultProbability)
                       ELSE Nullish(opts.optionalsProbability, JNum(ZodDefaultProbability))
        after == IF asks THEN pos + 1 ELSE pos
        used == IF asks THEN {probability} ELSE {}
        value == generateFromSchemaString(opts, propSchema, JObj(<<>>), rnd, after)
    IN IF Get(overrides, key) # JUndef
       THEN Ret(SetKey(mock, key, Get(overrides, key)), pos, {})
       ELSE IF asks /\ rnd[pos] > probability.n
       THEN Ret(mock, after, used)
       ELSE IF value.v = JNull /\ opts.omitNulls = JBool(TRUE)
       THEN Ret(mock, value.pos, used \cup value.probs)
       ELSE Ret(SetKey(mock, key, value.v), value.pos, used \cup value.probs)

\* generateFromSchemaString
generateFromSchemaString(opts, zodSchemaString, overrides, rnd, pos) ==
    IF Includes(zodSchemaString, <<"z", ".", "o", "b", "j", "e", "c", "t", "(">>)
    THEN generateObjectMock(opts, zodSchemaString, overrides, rnd, pos)
    ELSE IF Includes(zodSchemaString, <<"z", ".", "a", "r", "r", "a", "y", "(">>) THEN Ret(JSome("array"), pos, {})
    ELSE IF Includes(zodSchemaString, <<"z", ".", "e", "n", "u", "m", "(">>) THEN Ret(JSome("enum"), pos, {})
    ELSE IF Includes(zodSchemaString, <<"z", ".", "s", "t", "r", "i", "n", "g", "(", ")">>) THEN Ret(JSome("string"), pos, {})
    ELSE IF Includes(zodSchemaString, <<"z", ".", "n", "u", "m", "b", "e", "r", "(", ")">>) THEN Ret(JSome("number"), pos, {})
    ELSE IF Includes(zodSchemaString, <<"z", ".", "b", "o", "o", "l", "e", "a", "n", "(", ")">>) THEN Ret(JSome("boolean"), pos, {})
    ELSE IF Includes(zodSchemaString, <<"z", ".", "u", "n", "i", "o", "n", "(">>) THEN Ret(JSome("union"), pos, {})
    ELSE IF Includes(zodSchemaString, <<"z", ".", "n", "u", "l", "l", "(", ")">>)
    THEN Ret(IF opts.omitNulls = JBool(TRUE) THEN JUndef ELSE JNull, pos, {})
    ELSE Ret(JNull, pos, {})

-----------------------------------------------------------------------------
(* the static engine: the value of the object literal generateStaticMockCode emits *)

\* generateStaticString: "pattern-match" for a pattern, else 'a'.repeat(5)
generateStaticString(schema) ==
    IF schema.pattern # <<>> THEN JStr("pattern-match") ELSE JStr("aaaaa")

StaticKeepsEvery(required, key) == TRUE

\* if (!required.has(key)) continue
StaticKeeps(required, key) == key \in required

RECURSIVE generateStaticMockInternal(_)
\* generateStaticObject
generateStaticObject(schema) ==
    IF ~schema.properties.has THEN JObj(<<>>)
    ELSE LET kept == SelectSeq(schema.properties.e,
                               LAMBDA en : StaticKeeps(schema.required, en[1]))
         IN JObj([i \in 1..Len(kept) |-> <<kept[i][1], generateStaticMockInternal(kept[i][2])>>])

\* generateStaticMockInternal with generateStaticForSingleType
generateStaticMockInternal(schema) ==
    IF schema.type = "string" THEN generateStaticString(schema)
    ELSE IF schema.type = "null" THEN JNull
    ELSE IF schema.type = "object" THEN generateStaticObject(schema)
    ELSE IF schema.type = "" /\ schema.properties.has THEN generateStaticObject(schema)
    ELSE JNull

\* { ...a, ...b }
RECURSIVE SpreadFrom(_, _, _)
SpreadFrom(a, b, i) ==
    IF i > Len(b.e) THEN a ELSE SpreadFrom(SetKey(a, b.e[i][1], b.e[i][2]), b, i + 1)

Spread(a, b) == SpreadFrom(a, b, 1)

-----------------------------------------------------------------------------
(* the runtime engine: generateMock resolves the options; the synthesis it hands
   the schema to is the object synthesis as specified *)

JsfDefaultProbability == 10
FallbackProbability == 8

\* JSONSchemaFaker.option({ ... })
JsfOptions(options) ==
    [useDefaultValue |-> Nullish(options.useDefaultValue, JBool(FALSE)),
     useExamplesValue |-> Nullish(options.useExamplesValue, JBool(FALSE)),
     alwaysFakeOptionals |-> Nullish(options.alwaysFakeOptionals, JBool(FALSE)),
     optionalsProbability |-> Nullish(options.optionalsProbability, JNum(JsfDefaultProbability)),
     omitNulls |-> Nullish(options.omitNulls, JBool(FALSE)),
     requiredOnly |-> Nullish(options.requiredOnly, JBool(TRUE))]

\* the inclusion probability of an optional property: 0.8 when unset or false
InclusionProbability(opts) ==
    IF opts.optionalsProbability \in {JUndef, JNull, JBool(FALSE)}
    THEN JNum(FallbackProbability)
    ELSE opts.optionalsProbability

\* strategy.pickInclusion(p) of the randomized strategy
pickInclusion(p, random) == random < p.n

RECURSIVE synthesize(_, _, _, _)
RECURSIVE SynthLoop(_, _, _, _, _, _, _)
RECURSIVE SynthStep(_, _, _, _, _, _)

\* one declared property of an object: required ones always, optional ones by the
\* policy, then omitNulls on the optional ones
SynthStep(opts, required, property, mock, rnd, pos) ==
    LET key == property[1]
        asks == /\ key \notin required
                /\ opts.requiredOnly # JBool(TRUE)
                /\ opts.alwaysFakeOptionals # JBool(TRUE)
        after == IF asks THEN pos + 1 ELSE pos
        used == IF asks THEN {InclusionProbability(opts)} ELSE {}
        value == synthesize(opts, property[2], rnd, after)
    IN IF key \notin required /\ opts.requiredOnly = JBool(TRUE) THEN Ret(mock, pos, {})
       ELSE IF asks /\ ~pickInclusion(InclusionProbability(opts), rnd[pos])
       THEN Ret(mock, after, used)
       ELSE IF key \notin required /\ opts.omitNulls = JBool(TRUE) /\ value.v = JNull
       THEN Ret(mock, value.pos, used \cup value.probs)
       ELSE Ret(SetKey(mock, key, value.v), value.pos, used \cup value.probs)

SynthLoop(opts, required, properties, i, mock, rnd, st) ==
    IF i > Len(properties) THEN Ret(mock, st.pos, st.probs)
    ELSE LET r == SynthStep(opts, required, properties[i], mock, rnd, st.pos)
         IN SynthLoop(opts, required, properties, i + 1, r.v, rnd,
                      [pos |-> r.pos, probs |-> st.probs \cup r.probs])

\* synthesize(schema, policy, strategy): a string, null for null and unknown, an object
synthesize(opts, schema, rnd, pos) ==
    IF schema.type = "string" THEN Ret(JSome("string"), pos, {})
    ELSE IF schema.type = "object" \/ schema.properties.has
    THEN SynthLoop(opts, schema.required, schema.properties.e, 1, JObj(<<>>), rnd,
                   [pos |-> pos, probs |-> {}])
    ELSE Ret(JNull, pos, {})

-----------------------------------------------------------------------------
(* the synthesis calls: object schemas of two properties, options, overrides *)

KeyA == <<"a">>
KeyB == <<"b">>
KeyC == <<"c">>
KeyX == <<"x">>
KeyColon == <<"x", ":", "y">>

\* { type: 'object', properties: { x: { type: 'string' } } }
SNested == SObject(<< <<KeyX, SString>> >>, {})
\* { type: 'string', pattern: "'" }
SQuoted == SPattern(<<"'">>)

ObjectsOver(propA, propB) ==
    {SObject(<< <<KeyA, pa>>, <<KeyB, pb>> >>, required) :
        pa \in propA, pb \in propB, required \in SUBSET {KeyA, KeyB}}

SynSchemas ==
    ObjectsOver({SString, SAny, SNull, SNested, SQuoted}, {SString})
    \cup {SObject(<< <<KeyColon, SString>>, <<KeyB, SString>> >>, required) :
            required \in {{}, {KeyB}}}
    \cup {SObject(<<>>, {}), Sch("object", <<>>, NoProps, {})}

RuntimeSchemas == ObjectsOver({SString, SAny, SNested}, {SString})

Overrides == {JObj(<<>>), JObj(<< <<KeyB, JStr("X")>> >>), JObj(<< <<KeyC, JStr("X")>> >>)}

Probabilities == {JUndef, JBool(FALSE), JNum(0), JNum(10)}

ZodMockOptions ==
    [useDefault : {JUndef}, useExamples : {JUndef},
     alwaysIncludeOptionals : {JUndef, JBool(FALSE), JBool(TRUE)},
     optionalsProbability : Probabilities,
     omitNulls : {JBool(FALSE), JBool(TRUE)}]

JSFOptions ==
    [useDefaultValue : {JUndef}, useExamplesValue : {JUndef},
     alwaysFakeOptionals : {JUndef, JBool(TRUE)},
     optionalsProbability : Probabilities,
     omitNulls : {JBool(FALSE), JBool(TRUE)},
     requiredOnly : {JUndef, JBool(FALSE), JBool(TRUE)}]

RandomStreams == [1..MaxDraws -> RandVals]

Call(engine, pc, schema, text, options, opts, overrides, properties, mock, built) ==
    [engine |-> engine, pc |-> pc, schema |-> schema, text |-> text, options |-> options,
     opts |-> opts, overrides |-> overrides, properties |-> properties, i |-> 1,
     mock |-> mock, result |-> built, probs |-> {}, draws |-> <<>>]

InitSynth ==
    /\ RegIdle
    /\ CanonIdle
    /\ SynIdle

\* generateMockFromZodSchema(zodSchemaString, overrides, options) on the text of an
\* object schema, up to the for loop of generateObjectMock
ZodStart(schema, overrides, options) ==
    /\ syn.pc = "idle"
    /\ LET zodSchemaString == generateZodSchemaInternal(schema)
           propertiesString == extractObjectProperties(zodSchemaString)
       IN /\ Includes(zodSchemaString, <<"z", ".", "o", "b", "j", "e", "c", "t", "(">>)
          /\ syn' = IF ~propertiesString.ok \/ propertiesString.s = <<>>
                    THEN Call("zod", "done", schema, zodSchemaString, options,
                              ZodMockGenerator(options), overrides, <<>>,
                              JObj(<<>>), JObj(<<>>))
                    ELSE Call("zod", "loop", schema, zodSchemaString, options,
                              ZodMockGenerator(options), overrides,
                              parseObjectProperties(propertiesString.s),
                              JObj(<<>>), JUndef)
    /\ UNCHANGED <<regVars, canonVars>>

\* the step of a loop over the properties: the mock, the draws and the probabilities
\* after the i-th property
Stepped(r, rnd) ==
    [syn EXCEPT !.i = syn.i + 1, !.mock = r.v, !.probs = syn.probs \cup r.probs,
                !.draws = SubSeq(rnd, 1, r.pos - 1)]

\* one round of the for loop of generateObjectMock
ZodProperty(rnd) ==
    /\ syn.engine = "zod" /\ syn.pc = "loop"
    /\ syn.i <= Len(syn.properties)
    /\ syn' = Stepped(ObjectStep(syn.opts, syn.properties[syn.i], syn.overrides, syn.mock,
                                 rnd, 1), rnd)
    /\ UNCHANGED <<regVars, canonVars>>

\* return mock
ZodReturn ==
    /\ syn.engine = "zod" /\ syn.pc = "loop"
    /\ syn.i > Len(syn.properties)
    /\ syn' = [syn EXCEPT !.pc = "done", !.result = syn.mock, !.draws = <<>>]
    /\ UNCHANGED <<regVars, canonVars>>

\* the build of a static builder: { ...baseMock, ...this.overrides }
StaticBuild(schema, overrides) ==
    /\ syn.pc = "idle"
    /\ LET baseMock == generateStaticMockInternal(schema)
       IN syn' = Call("static", "done", schema, <<>>, JUndef, JUndef, overrides, <<>>,
                      baseMock, Spread(baseMock, overrides))
    /\ UNCHANGED <<regVars, canonVars>>

\* generateMock(schema, options) of the runtime engine, up to the loop over the
\* properties
RuntimeStart(schema, overrides, options) ==
    /\ syn.pc = "idle"
    /\ syn' = Call("runtime", "loop", schema, <<>>, options, JsfOptions(options), overrides,
                   schema.properties.e, JObj(<<>>), JUndef)
    /\ UNCHANGED <<regVars, canonVars>>

\* one declared property of the object
RuntimeProperty(rnd) ==
    /\ syn.engine = "runtime" /\ syn.pc = "loop"
    /\ syn.i <= Len(syn.properties)
    /\ syn' = Stepped(SynthStep(syn.opts, syn.schema.required, syn.properties[syn.i],
                                syn.mock, rnd, 1), rnd)
    /\ UNCHANGED <<regVars, canonVars>>

\* the build of a runtime builder: { ...mock, ...this.overrides }
RuntimeReturn ==
    /\ syn.engine = "runtime" /\ syn.pc = "loop"
    /\ syn.i > Len(syn.properties)
    /\ syn' = [syn EXCEPT !.pc = "done", !.result = Spread(syn.mock, syn.overrides),
                          !.draws = <<>>]
    /\ UNCHANGED <<regVars, canonVars>>

NextSynth ==
    \/ \E schema \in SynSchemas, overrides \in Overrides, options \in ZodMockOptions :
          ZodStart(schema, overrides, options)
    \/ \E rnd \in RandomStreams : ZodProperty(rnd)
    \/ ZodReturn
    \/ \E schema \in SynSchemas, overrides \in Overrides : StaticBuild(schema, overrides)
    \/ \E schema \in RuntimeSchemas, overrides \in Overrides, options \in JSFOptions :
          RuntimeStart(schema, overrides, options)
    \/ \E rnd \in RandomStreams : RuntimeProperty(rnd)
    \/ RuntimeReturn

SpecSynth == InitSynth /\ [][NextSynth]_vars

-----------------------------------------------------------------------------
(* numbers: a JavaScript number is JNum(n) with n in ten-thousandths, or NaN; the
   schema bounds are whole numbers in the same unit *)

JNaN == [k |-> "nan"]
Units(n) == n * 10000
DigitChars == <<"0", "1", "2", "3", "4", "5", "6", "7", "8", "9">>

\* String(v) of a whole number
RECURSIVE NatText(_)
NatText(n) == IF n < 10 THEN <<DigitChars[n + 1]>> ELSE NatText(n \div 10) \o <<DigitChars[(n % 10) + 1]>>
NumberText(v) ==
    IF v.n < 0 THEN <<"-">> \o NatText((-v.n) \div 10000) ELSE NatText(v.n \div 10000)

DigitValue(c) == CHOOSE d \in 0..9 : DigitChars[d + 1] = c
IsDigit(c) == \E d \in 0..9 : DigitChars[d + 1] = c

\* the value of the digits of str from index i (1-based) on, after acc
RECURSIVE DigitsFrom(_, _, _)
DigitsFrom(str, i, acc) ==
    IF i > Len(str) \/ ~IsDigit(str[i]) THEN acc
    ELSE DigitsFrom(str, i + 1, acc * 10 + DigitValue(str[i]))

\* parseFloat(str) of a text without a fraction: a sign, then digits; NaN without a
\* digit at the start
parseFloat(str) ==
    LET signed == str # <<>> /\ str[1] \in {"-", "+"}
        first == IF signed THEN 2 ELSE 1
    IN IF first > Len(str) \/ ~IsDigit(str[first]) THEN JNaN
       ELSE JNum(Units((IF signed /\ str[1] = "-" THEN -1 ELSE 1) * DigitsFrom(str, first, 0)))

\* str.match(/<suffix>\(([^)]+)\)/): the first capture, [ok |-> FALSE] for no match;
\* suffix is the text up to and with the opening parenthesis
MatchArgument(str, suffix) ==
    LET n == Len(suffix)
        closeAfter(i) == {j \in (i + n + 1)..Len(str) : str[j] = ")"}
        at == {i \in 1..(Len(str) - n) :
                 /\ SubSeq(str, i, i + n - 1) = suffix
                 /\ str[i + n] # ")"
                 /\ closeAfter(i) # {}}
        i0 == CHOOSE i \in at : \A j \in at : i <= j
        close == CHOOSE j \in closeAfter(i0) : \A k \in closeAfter(i0) : j <= k
    IN IF at = {} THEN [ok |-> FALSE, s |-> <<>>]
       ELSE [ok |-> TRUE, s |-> SubSeq(str, i0 + n, close - 1)]

ZOD_MIN == <<".", "m", "i", "n", "(">>
ZOD_MAX == <<".", "m", "a", "x", "(">>
ZOD_GT == <<".", "g", "t", "(">>
ZOD_LT == <<".", "l", "t", "(">>
ZOD_INT == <<".", "i", "n", "t", "(", ")">>

\* a number or integer schema; a bound that is not set is JUndef
NumSch(type, minimum, maximum, exclusiveMinimum, exclusiveMaximum) ==
    [type |-> type, minimum |-> minimum, maximum |-> maximum,
     exclusiveMinimum |-> exclusiveMinimum, exclusiveMaximum |-> exclusiveMaximum]

\* `${suffix}(${bound})` when typeof bound === 'number'
BoundText(suffix, bound) ==
    IF bound = JUndef THEN <<>> ELSE suffix \o <<"(">> \o NumberText(bound) \o <<")">>

\* generateZodNumber
generateZodNumber(schema) ==
    ZOD_NUMBER \o BoundText(ZOD_MIN, schema.minimum) \o BoundText(ZOD_MAX, schema.maximum)
               \o BoundText(ZOD_GT, schema.exclusiveMinimum)
               \o BoundText(ZOD_LT, schema.exclusiveMaximum)

\* generateZodInteger
generateZodInteger(schema) ==
    ZOD_NUMBER \o ZOD_INT \o BoundText(ZOD_MIN, schema.minimum)
               \o BoundText(ZOD_MAX, schema.maximum)
               \o BoundText(ZOD_GT, schema.exclusiveMinimum)
               \o BoundText(ZOD_LT, schema.exclusiveMaximum)

\* arithmetic on numbers: NaN is contagious
NumAdd(a, b) == IF a = JNaN \/ b = JNaN THEN JNaN ELSE JNum(a.n + b.n)
\* Math.floor
MathFloor(a) == IF a = JNaN THEN JNaN ELSE JNum((a.n \div 10000) * 10000)
\* Math.round(value * 100) / 100
RoundHundredths(a) == IF a = JNaN THEN JNaN ELSE JNum(((a.n + 50) \div 100) * 100)
\* random * (max - min) + min with random in tenths
Between(min, max, random) ==
    IF min = JNaN \/ max = JNaN THEN JNaN
    ELSE JNum((random * (max.n - min.n)) \div 10 + min.n)

\* generateNumberMock
generateNumberMock(zodSchemaString, random) ==
    LET isInt == Includes(zodSchemaString, <<".", "i", "n", "t", "(", ")">>)
        minMatch == MatchArgument(zodSchemaString, <<".", "m", "i", "n", "(">>)
        maxMatch == MatchArgument(zodSchemaString, <<".", "m", "a", "x", "(">>)
        gtMatch == MatchArgument(zodSchemaString, <<".", "g", "t", "(">>)
        ltMatch == MatchArgument(zodSchemaString, <<".", "l", "t", "(">>)
        step == IF isInt THEN JNum(Units(1)) ELSE JNum(10)
        min == IF gtMatch.ok THEN NumAdd(parseFloat(gtMatch.s), step)
               ELSE IF minMatch.ok THEN parseFloat(minMatch.s) ELSE JNum(0)
        max == IF ltMatch.ok
               THEN NumAdd(parseFloat(ltMatch.s), IF isInt THEN JNum(Units(-1)) ELSE JNum(-10))
               ELSE IF maxMatch.ok THEN parseFloat(maxMatch.s) ELSE JNum(Units(100))
        value == Between(min, max, random)
    IN IF isInt THEN MathFloor(value) ELSE RoundHundredths(value)

\* min + Math.floor((max - min) / 2)
Midpoint(min, max) == NumAdd(min, MathFloor(JNum((max.n - min.n) \div 2)))

\* generateStaticNumber: the value of the literal it emits
generateStaticNumber(schema) ==
    Midpoint(Nullish(schema.minimum, JNum(0)), Nullish(schema.maximum, JNum(Units(100))))

\* Math.ceil
MathCeil(a) == IF a = JNaN THEN JNaN ELSE JNum(-(((-a.n) \div 10000) * 10000))

\* generateStaticInteger
generateStaticInteger(schema) ==
    Midpoint(IF schema.minimum # JUndef THEN MathCeil(schema.minimum) ELSE JNum(0),
             IF schema.maximum # JUndef THEN MathFloor(schema.maximum) ELSE JNum(Units(100)))

-----------------------------------------------------------------------------
(* the number calls: a number or integer schema through the textual notation and
   through the static generator *)

Minimums == {JUndef, JNum(Units(10)), JNum(Units(200))}
Maximums == {JUndef, JNum(Units(20)), JNum(Units(-50))}
ExclusiveMinimums == {JUndef, JNum(Units(10))}
ExclusiveMaximums == {JUndef, JNum(Units(10))}

\* the schemas whose inclusive bounds, when both are set, are ordered
NumSchemas ==
    {sch \in {NumSch(type, minimum, maximum, exclusiveMinimum, exclusiveMaximum) :
                type \in {"number", "integer"}, minimum \in Minimums, maximum \in Maximums,
                exclusiveMinimum \in ExclusiveMinimums,
                exclusiveMaximum \in ExclusiveMaximums} :
        (sch.minimum # JUndef /\ sch.maximum # JUndef) => sch.minimum.n <= sch.maximum.n}

NumRandVals == {0, 5, 9}

\* generateZodForSingleType on 'number' and 'integer'
generateZodForNumber(schema) ==
    IF schema.type = "integer" THEN generateZodInteger(schema) ELSE generateZodNumber(schema)

\* generateFromSchemaString reaches generateNumberMock
ReachesNumberMock(zodSchemaString) ==
    /\ ~Includes(zodSchemaString, <<"z", ".", "o", "b", "j", "e", "c", "t", "(">>)
    /\ ~Includes(zodSchemaString, <<"z", ".", "a", "r", "r", "a", "y", "(">>)
    /\ ~Includes(zodSchemaString, <<"z", ".", "e", "n", "u", "m", "(">>)
    /\ ~Includes(zodSchemaString, <<"z", ".", "s", "t", "r", "i", "n", "g", "(", ")">>)
    /\ Includes(zodSchemaString, <<"z", ".", "n", "u", "m", "b", "e", "r", "(", ")">>)

NumCall(engine, schema, text, draws, value) ==
    [engine |-> engine, pc |-> "done", schema |-> schema, text |-> text, draws |-> draws,
     value |-> value]

\* generateMockFromZodSchema on the text generateZodSchema gives for the schema
ZodNumber(schema, random) ==
    /\ syn.pc = "idle"
    /\ LET zodSchemaString == generateZodForNumber(schema)
       IN /\ ReachesNumberMock(zodSchemaString)
          /\ syn' = NumCall("zod", schema, zodSchemaString, <<random>>,
                            generateNumberMock(zodSchemaString, random))
    /\ UNCHANGED <<regVars, canonVars>>

\* the literal generateStaticMockCode emits for the schema
StaticNumber(schema) ==
    /\ syn.pc = "idle"
    /\ syn' = NumCall("static", schema, <<>>, <<>>,
                      IF schema.type = "integer" THEN generateStaticInteger(schema)
                      ELSE generateStaticNumber(schema))
    /\ UNCHANGED <<regVars, canonVars>>

NextNum ==
    \/ \E schema \in NumSchemas, random \in NumRandVals : ZodNumber(schema, random)
    \/ \E schema \in NumSchemas : StaticNumber(schema)

SpecNum == InitSynth /\ [][NextNum]_vars

-----------------------------------------------------------------------------
(* strings with a format: the text of generateZodString and generateStringMock on it;
   Math.random() of generateUUID in sixteenths *)

ZOD_UUID == <<".", "u", "u", "i", "d", "(", ")">>
ZOD_EMAIL == <<".", "e", "m", "a", "i", "l", "(", ")">>

\* a string schema with a format ("" for none) and a pattern (<<>> for none)
FormatSch(format, pattern) == [type |-> "string", format |-> format, pattern |-> pattern]

\* getZodStringFormat
getZodStringFormat(format) ==
    IF format = "uuid" THEN ZOD_UUID
    ELSE IF format = "email" THEN ZOD_EMAIL
    ELSE <<>>

\* generateZodString with schema.format
generateZodFormatString(schema) ==
    ZOD_STRING \o (IF schema.format # "" THEN getZodStringFormat(schema.format) ELSE <<>>)
               \o (IF schema.pattern # <<>>
                   THEN ZOD_REGEX \o <<"(", "/">> \o schema.pattern \o <<"/", ")">>
                   ELSE <<>>)

UuidTemplate ==
    <<"x", "x", "x", "x", "x", "x", "x", "x", "-", "x", "x", "x", "x", "-", "4", "x", "x", "x",
      "-", "y", "x", "x", "x", "-", "x", "x", "x", "x", "x", "x", "x", "x", "x", "x", "x", "x">>
HexChars ==
    <<"0", "1", "2", "3", "4", "5", "6", "7", "8", "9", "a", "b", "c", "d", "e", "f">>

VariantNibbleRaw(r) == r

\* (r & 0x3) | 0x8
VariantNibble(r) == (r % 4) + 8

\* the number of the [xy] match at index i of the template
MatchIndex(i) == Cardinality({j \in 1..i : UuidTemplate[j] \in {"x", "y"}})

\* generateUUID: every x and y replaced, each with a Math.random() of its own
generateUUID(stream) ==
    [i \in 1..Len(UuidTemplate) |->
        LET c == UuidTemplate[i]
            r == (stream[MatchIndex(i)] * 16) \div 16
            v == IF c = "x" THEN r ELSE VariantNibble(r)
        IN IF c \in {"x", "y"} THEN HexChars[v + 1] ELSE c]

\* generateStringMock: a UUID for .uuid(), else some string
generateStringMock(zodSchemaString, stream) ==
    IF Includes(zodSchemaString, <<".", "u", "u", "i", "d", "(", ")">>)
    THEN generateUUID(stream)
    ELSE <<"s">>

UuidDraws == Cardinality({j \in 1..Len(UuidTemplate) : UuidTemplate[j] \in {"x", "y"}})

\* the random streams: all draws alike but one
UuidStreams ==
    {[i \in 1..UuidDraws |-> IF i = p THEN v ELSE w] : p \in 1..UuidDraws, v \in 0..15, w \in {0, 15}}

FormatSchemas == {FormatSch(format, pattern) : format \in {"uuid", "email", ""},
                                               pattern \in {<<>>, <<"'">>}}

\* generateFromSchemaString reaches generateStringMock
ReachesStringMock(zodSchemaString) ==
    /\ ~Includes(zodSchemaString, <<"z", ".", "o", "b", "j", "e", "c", "t", "(">>)
    /\ ~Includes(zodSchemaString, <<"z", ".", "a", "r", "r", "a", "y", "(">>)
    /\ ~Includes(zodSchemaString, <<"z", ".", "e", "n", "u", "m", "(">>)
    /\ Includes(zodSchemaString, <<"z", ".", "s", "t", "r", "i", "n", "g", "(", ")">>)

\* generateMockFromZodSchema on the text generateZodSchema gives for a string schema
ZodString(schema, stream) ==
    /\ syn.pc = "idle"
    /\ LET zodSchemaString == generateZodFormatString(schema)
       IN /\ ReachesStringMock(zodSchemaString)
          /\ syn' = [engine |-> "zod", pc |-> "done", schema |-> schema,
                     text |-> zodSchemaString,
                     value |-> generateStringMock(zodSchemaString, stream)]
    /\ UNCHANGED <<regVars, canonVars>>

NextStr == \E schema \in FormatSchemas, stream \in UuidStreams : ZodString(schema, stream)

SpecStr == InitSynth /\ [][NextStr]_vars

-----------------------------------------------------------------------------
(* intersections: a schema that carries allOf, through the static generator and
   through the textual notation *)

KeyY == <<"y">>

\* { allOf: branches }, with or without a type of its own
AllOfSch(type, branches) ==
    [type |-> type, pattern |-> <<>>, properties |-> NoProps, required |-> {},
     allOf |-> branches]

\* allOf of { properties: { x }, required: [x] } and { properties: { y } }
IntersectionSchemas ==
    {AllOfSch(type, <<SObject(<< <<KeyX, px>> >>, {KeyX}), SObject(<< <<KeyY, py>> >>, {})>>) :
        type \in {"", "object"}, px \in {SString, SAny, SNull, SNested},
        py \in {SString, SAny, SNull, SNested}}

\* { ...value }: a value that is not an object has nothing to spread
ObjectOf(value) == IF IsObj(value) THEN value ELSE JObj(<<>>)

\* the build of a static builder on the schema
StaticIntersection(schema, overrides) ==
    /\ syn.pc = "idle"
    /\ LET baseMock == generateStaticMockInternal(schema)
       IN syn' = [engine |-> "static", pc |-> "done", schema |-> schema, text |-> <<>>,
                  options |-> JUndef, overrides |-> overrides, mock |-> baseMock,
                  result |-> Spread(ObjectOf(baseMock), overrides)]
    /\ UNCHANGED <<regVars, canonVars>>

\* the build of a Zod builder on the schema: generateMockFromZodSchema on its text
ZodIntersection(schema, overrides, options, rnd) ==
    /\ syn.pc = "idle"
    /\ LET zodSchemaString == generateZodSchemaInternal(schema)
           mock == generateFromSchemaString(ZodMockGenerator(options), zodSchemaString,
                                            overrides, rnd, 1)
       IN syn' = [engine |-> "zod", pc |-> "done", schema |-> schema,
                  text |-> zodSchemaString, options |-> options, overrides |-> overrides,
                  mock |-> mock.v, result |-> mock.v]
    /\ UNCHANGED <<regVars, canonVars>>

NextAllOf ==
    \/ \E schema \in IntersectionSchemas, overrides \in Overrides :
          StaticIntersection(schema, overrides)
    \/ \E schema \in IntersectionSchemas, overrides \in Overrides, options \in ZodMockOptions,
          rnd \in RandomStreams : ZodIntersection(schema, overrides, options, rnd)

SpecAllOf == InitSynth /\ [][NextAllOf]_vars

-----------------------------------------------------------------------------
(* the reader on any text: generateFromSchemaString with the array generator; the
   lengths of arrays are in thousands, rounded down: the texts here give them in whole
   thousands, and the default lengths 1 and 3 and the + 1 of the range are 0 *)

JThrow(error) == [k |-> "throw", error |-> error]

\* str.match(/<suffix>\((\d+)\)/): the digits, [ok |-> FALSE] for no match
MatchDigits(str, suffix) ==
    LET n == Len(suffix)
        digitsEnd(i) == CHOOSE j \in (i + n)..(Len(str) + 1) :
                           /\ \A m \in (i + n)..(j - 1) : IsDigit(str[m])
                           /\ (j = Len(str) + 1 \/ ~IsDigit(str[j]))
        at == {i \in 1..(Len(str) - n) :
                 /\ SubSeq(str, i, i + n - 1) = suffix
                 /\ IsDigit(str[i + n])
                 /\ digitsEnd(i) <= Len(str)
                 /\ str[digitsEnd(i)] = ")"}
        i0 == CHOOSE i \in at : \A j \in at : i <= j
    IN IF at = {} THEN [ok |-> FALSE, s |-> <<>>]
       ELSE [ok |-> TRUE, s |-> SubSeq(str, i0 + n, digitsEnd(i0) - 1)]

\* parseInt(digits), in thousands
parseInt(digits) ==
    IF Len(digits) <= 3 THEN 0 ELSE DigitsFrom(SubSeq(digits, 1, Len(digits) - 3), 1, 0)

\* Array.from({ length }, ...): a RangeError for a length above 2^32 - 1, which is
\* 4294967 thousands and 295
ArrayFrom(length) ==
    IF length > 4294967 THEN JThrow("RangeError") ELSE [k |-> "some", of |-> "array"]

\* generateArrayMock with no items among the overrides
generateArrayMock(zodSchemaString, random) ==
    LET itemTypeMatch == MatchArgument(zodSchemaString, <<"z", ".", "a", "r", "r", "a", "y", "(">>)
        minMatch == MatchDigits(zodSchemaString, <<".", "m", "i", "n", "(">>)
        maxMatch == MatchDigits(zodSchemaString, <<".", "m", "a", "x", "(">>)
        minLength == IF minMatch.ok THEN parseInt(minMatch.s) ELSE 0
        maxLength == IF maxMatch.ok THEN parseInt(maxMatch.s) ELSE 0
        length == (random * (maxLength - minLength)) \div 10 + minLength
    IN IF ~itemTypeMatch.ok THEN JArr(<<>>) ELSE ArrayFrom(length)

\* generateFromSchemaString with generateArrayMock: the value or what is thrown
readSchemaString(opts, zodSchemaString, rnd) ==
    IF /\ ~Includes(zodSchemaString, <<"z", ".", "o", "b", "j", "e", "c", "t", "(">>)
       /\ Includes(zodSchemaString, <<"z", ".", "a", "r", "r", "a", "y", "(">>)
    THEN generateArrayMock(zodSchemaString, rnd[1])
    ELSE generateFromSchemaString(opts, zodSchemaString, JObj(<<>>), rnd, 1).v

Digits5e9 == <<"5", "0", "0", "0", "0", "0", "0", "0", "0", "0">>
Digits2e3 == <<"2", "0", "0", "0">>
TextDate == <<"z", ".", "d", "a", "t", "e", "(", ")">>
ArrayOfStrings == ZOD_ARRAY \o ZOD_STRING \o <<")">>

\* texts the reader has no constructor for, texts whose constructor it cannot read
\* to the end, and texts it reads
InputTexts ==
    {<<>>, TextDate, <<"?">>, ZOD_NULL, ZOD_STRING,
     <<"z", ".", "o", "b", "j", "e", "c", "t", "(", "x", ")">>,
     ZOD_OBJECT,
     ZOD_OBJECT \o <<" ", "a", " ", "}", ")">>,
     ZOD_OBJECT \o <<" ", "a", ":", " ">> \o TextDate \o <<" ", "}", ")">>,
     ZOD_ARRAY, ZOD_ARRAY \o <<")">>, ZOD_ENUM \o <<")">>, ZOD_UNION \o <<")">>,
     ArrayOfStrings,
     ArrayOfStrings \o ZOD_MIN \o Digits2e3 \o <<")">>,
     ArrayOfStrings \o ZOD_MIN \o Digits5e9 \o <<")">>,
     ArrayOfStrings \o ZOD_MIN \o Digits5e9 \o <<")">> \o ZOD_MAX \o Digits5e9 \o <<")">>}

\* generateMockFromZodSchema(zodSchemaString, {}, options)
ReadText(zodSchemaString, options, rnd) ==
    /\ syn.pc = "idle"
    /\ syn' = [engine |-> "zod", pc |-> "done", text |-> zodSchemaString,
               options |-> options, draws |-> rnd,
               result |-> readSchemaString(ZodMockGenerator(options), zodSchemaString, rnd)]
    /\ UNCHANGED <<regVars, canonVars>>

NextRead ==
    \E zodSchemaString \in InputTexts, options \in ZodMockOptions, rnd \in RandomStreams :
        ReadText(zodSchemaString, options, rnd)

SpecRead == InitSynth /\ [][NextRead]_vars

-----------------------------------------------------------------------------
(* the canonicalization pipeline on whole fragments: irToSchema, normalizeSchema,
   sanitizeSchema, collectSchemas.  The fragments here are trees without $ref: every
   object is met once, so the seenSet guard never cuts a call short (references and
   the seenSet are stepped through above) *)

\* a JavaScript condition: if (v)
Truthy(v) == v \notin {JUndef, JNull, JBool(FALSE), JStr("")}

\* delete o[key]
DeleteKey(o, key) == JObj(SelectSeq(o.e, LAMBDA en : en[1] # key))

Elements(arr) == {arr.e[i] : i \in 1..Len(arr.e)}

\* typeof it === 'object' && 'const' in it
HasConst(it) == IsObj(it) /\ "const" \in KeySet(it)

isEnum(ir) ==
    /\ IsObj(ir)
    /\ \/ IsArr(Get(ir, "enum"))
       \/ Get(ir, "type") = JStr("enum")
       \/ /\ ~Truthy(Get(ir, "enum"))
          /\ IsArr(Get(ir, "items"))
          /\ Len(Get(ir, "items").e) > 0
          /\ \A it \in Elements(Get(ir, "items")) : HasConst(it)

\* { anyOf: enumValues.map((value) => ({ const: value })) }
AnyOfConst(enumValues) ==
    JObj(<< <<"anyOf",
              JArr([i \in 1..Len(enumValues) |-> JObj(<< <<"const", enumValues[i]>> >>)])>> >>)

\* the three early returns of an enum fragment; JUndef when none of them is taken
EnumReturn(ir) ==
    LET enum == Get(ir, "enum")
        items == Get(ir, "items")
        consts == IF IsArr(items) THEN SelectSeq(items.e, HasConst) ELSE <<>>
        enumValues == [i \in 1..Len(consts) |-> Get(consts[i], "const")]
    IN  IF IsArr(enum) THEN AnyOfConst(enum.e)
        ELSE IF Get(ir, "type") = JStr("enum") /\ IsArr(items) /\ Len(enumValues) > 0
        THEN AnyOfConst(enumValues)
        ELSE IF /\ ~Truthy(enum) /\ IsArr(items) /\ Len(items.e) > 0
                /\ \A it \in Elements(items) : HasConst(it)
        THEN AnyOfConst(enumValues)
        ELSE JUndef

\* if (extendedIr.nullable) on the type just chosen
NullableFold(type, nullable) ==
    IF ~Truthy(nullable) THEN type
    ELSE IF type.k = "str" THEN JArr(<<type, JStr("null")>>)
    ELSE IF IsArr(type) /\ JStr("null") \notin Elements(type) THEN JArr(Append(type.e, JStr("null")))
    ELSE type

\* the keywords copied as they are; example becomes examples: [val]
CopyKeys ==
    <<"format", "pattern", "minimum", "maximum", "exclusiveMinimum", "exclusiveMaximum",
      "minLength", "maxLength", "minItems", "maxItems", "uniqueItems", "minProperties",
      "maxProperties", "title", "description", "default", "deprecated", "readOnly",
      "writeOnly", "example">>

Copied(ir) ==
    [i \in 1..Len(CopyKeys) |->
        LET val == Get(ir, CopyKeys[i])
        IN  IF CopyKeys[i] = "example"
            THEN <<"examples", IF val = JUndef THEN JUndef ELSE JArr(<<val>>)>>
            ELSE <<CopyKeys[i], val>>]

RECURSIVE irToSchema(_)
irToSchema(ir) ==
    IF ~(IsObj(ir) \/ IsArr(ir)) THEN Unknown
    ELSE IF isEnum(ir) /\ EnumReturn(ir) # JUndef THEN EnumReturn(ir)
    ELSE
        LET type == Get(ir, "type")
            properties == Get(ir, "properties")
            required == Get(ir, "required")
            additionalProperties == Get(ir, "additionalProperties")
            items == Get(ir, "items")
            Each(list) ==
                IF Truthy(list) THEN JArr([i \in 1..Len(list.e) |-> irToSchema(list.e[i])])
                ELSE JUndef
            outType ==
                IF Truthy(type) THEN type
                ELSE IF Truthy(properties) THEN JStr("object")
                ELSE IF Truthy(items) THEN JStr("array")
                ELSE JUndef
        IN  JObj(FilterDefined(
                << <<"type", NullableFold(outType, Get(ir, "nullable"))>>,
                   <<"properties",
                     IF Truthy(properties)
                     THEN JObj([i \in 1..Len(properties.e) |->
                                  <<properties.e[i][1], irToSchema(properties.e[i][2])>>])
                     ELSE JUndef>>,
                   <<"required",
                     IF Truthy(required) /\ Len(required.e) > 0 THEN required ELSE JUndef>>,
                   <<"additionalProperties",
                     IF additionalProperties = JUndef \/ additionalProperties.k = "bool"
                     THEN additionalProperties
                     ELSE irToSchema(additionalProperties)>>,
                   <<"items", IF IsArr(items) THEN Each(items)
                              ELSE IF Truthy(items) THEN irToSchema(items) ELSE JUndef>>,
                   <<"allOf", Each(Get(ir, "allOf"))>>,
                   <<"anyOf", Each(Get(ir, "anyOf"))>>,
                   <<"oneOf", Each(Get(ir, "oneOf"))>> >> \o Copied(ir)))

\* v === null ? 'null' : typeof v
TypeOfValue(v) ==
    CASE v = JNull -> "null"
      [] v.k = "str" -> "string"
      [] v.k = "num" -> "number"
      [] v.k = "bool" -> "boolean"
      [] OTHER -> "object"

\* the type normalizeSchema infers for the values of an enum
Inferred(enumValues) ==
    LET primitiveTypes == {TypeOfValue(enumValues[i]) : i \in 1..Len(enumValues)}
        only == IF Cardinality(primitiveTypes) = 1
                THEN CHOOSE t \in primitiveTypes : TRUE ELSE "string"
    IN  IF only = "number" /\ \A i \in 1..Len(enumValues) : enumValues[i].n % 10000 = 0
        THEN "integer"
        ELSE IF only = "object" THEN "string" ELSE only

\* if (workingNode.type === 'enum') { ... }
NormalizeEnum(node) ==
    LET items == Get(node, "items")
        consts == IF IsArr(items) THEN SelectSeq(items.e, HasConst) ELSE <<>>
        enumValues == [i \in 1..Len(consts) |-> Get(consts[i], "const")]
        typed == IF Len(enumValues) > 0
                 THEN SetKey(SetKey(node, "type", JStr(Inferred(enumValues))),
                             "enum", JArr(enumValues))
                 ELSE SetKey(node, "type", JStr("string"))
    IN  IF Get(node, "type") = JStr("enum")
        THEN DeleteKey(DeleteKey(typed, "items"), "logicalOperator")
        ELSE node

PrimitiveTypes ==
    {JStr("string"), JStr("null"), JStr("number"), JStr("integer"), JStr("boolean"),
     JStr("object")}

\* an array whose items are a list of primitive types becomes anyOf of them
NormalizeTuple(node) ==
    LET items == Get(node, "items")
    IN  IF /\ Get(node, "type") = JStr("array")
           /\ IsArr(items)
           /\ Len(items.e) > 0
           /\ \A it \in Elements(items) : IsObj(it) /\ Get(it, "type") \in PrimitiveTypes
        THEN DeleteKey(DeleteKey(SetKey(node, "anyOf", items), "type"), "items")
        ELSE node

\* node[key] is a list: each element through f; a single node: through f; else left alone
MapKey(node, key, f(_), single) ==
    LET value == Get(node, key)
    IN  IF IsArr(value) THEN SetKey(node, key, JArr([i \in 1..Len(value.e) |-> f(value.e[i])]))
        ELSE IF single /\ Truthy(value) THEN SetKey(node, key, f(value))
        ELSE node

\* node.properties[k] = f(node.properties[k]) for every key
MapProperties(node, f(_)) ==
    LET properties == Get(node, "properties")
    IN  IF IsObj(properties)
        THEN SetKey(node, "properties",
                    JObj([i \in 1..Len(properties.e) |->
                            <<properties.e[i][1], f(properties.e[i][2])>>]))
        ELSE node

RECURSIVE normalizeSchema(_)
normalizeSchema(node) ==
    IF ~IsObj(node) THEN node
    ELSE
        LET NormalizeIfEnum(item) ==
                IF IsObj(item) /\ Get(item, "type") = JStr("enum")
                THEN normalizeSchema(item) ELSE item
            Sub(n) == normalizeSchema(n)
            enumDone == NormalizeEnum(node)
            itemsDone == MapKey(enumDone, "items", NormalizeIfEnum, FALSE)
            tupleDone == NormalizeTuple(itemsDone)
            propsDone == MapProperties(tupleDone, Sub)
            restDone == MapKey(propsDone, "items", Sub, TRUE)
        IN  MapKey(MapKey(MapKey(restDone, "allOf", Sub, FALSE), "anyOf", Sub, FALSE),
                   "oneOf", Sub, FALSE)

\* the type and marker part of sanitizeSchema
SanitizeNode(node) ==
    LET enumGone ==
            IF Get(node, "type") = JStr("enum")
            THEN IF IsArr(Get(node, "enum"))
                 THEN SetKey(DeleteKey(node, "type"), "type", JStr("string"))
                 ELSE DeleteKey(node, "type")
            ELSE node
        unknownGone ==
            IF Get(enumGone, "type") = JStr("unknown") THEN DeleteKey(enumGone, "type")
            ELSE enumGone
        typed ==
            IF ~Truthy(Get(unknownGone, "type")) /\ IsArr(Get(unknownGone, "enum"))
            THEN SetKey(unknownGone, "type", JStr("string"))
            ELSE unknownGone
    IN  DeleteKey(typed, "logicalOperator")

RECURSIVE sanitizeSchema(_)
sanitizeSchema(node) ==
    IF ~IsObj(node) THEN node
    ELSE
        LET Sub(n) == sanitizeSchema(n)
            propsDone == MapProperties(SanitizeNode(node), Sub)
            additionalProperties == Get(propsDone, "additionalProperties")
            addDone ==
                IF IsObj(additionalProperties)
                THEN SetKey(propsDone, "additionalProperties", Sub(additionalProperties))
                ELSE propsDone
            itemsDone == MapKey(addDone, "items", Sub, TRUE)
        IN  MapKey(MapKey(MapKey(itemsDone, "allOf", Sub, FALSE), "anyOf", Sub, FALSE),
                   "oneOf", Sub, FALSE)

\* t === 'object' || (Array.isArray(t) && t.includes('object'))
isObjectType(t) == t = JStr("object") \/ (IsArr(t) /\ JStr("object") \in Elements(t))

\* what collectSchemas pushes for one entry of all, without its names
SchemaMeta(irSchema) ==
    LET jsf == sanitizeSchema(normalizeSchema(irToSchema(irSchema)))
    IN  [isEnum |-> isEnum(irSchema), schema |-> jsf,
         isObject |-> isObjectType(Get(jsf, "type"))]

\* the nodes of a schema: itself and every schema below it
Below(node) ==
    LET ListOf(key) == IF IsArr(Get(node, key)) THEN Elements(Get(node, key)) ELSE {}
        One(key) == IF IsObj(Get(node, key)) THEN {Get(node, key)} ELSE {}
        properties == Get(node, "properties")
    IN  (IF IsObj(properties) THEN {properties.e[i][2] : i \in 1..Len(properties.e)} ELSE {})
            \cup One("additionalProperties") \cup One("items") \cup ListOf("items")
            \cup ListOf("allOf") \cup ListOf("anyOf") \cup ListOf("oneOf")

RECURSIVE Nodes(_)
Nodes(node) == IF IsObj(node) THEN {node} \cup UNION {Nodes(c) : c \in Below(node)} ELSE {}

Fragment(entries) == JObj(FilterDefined(entries))

ConstA == JObj(<< <<"const", JStr("a")>> >>)

\* fragments without fragments below them
Leaves ==
    {Fragment(<< <<"type", type>>, <<"nullable", nullable>>, <<"enum", enum>>,
                 <<"items", items>>, <<"logicalOperator", logicalOperator>> >>) :
        type \in {JUndef, JStr("string"), JStr("enum"), JStr("unknown")},
        nullable \in {JUndef, JBool(TRUE)},
        enum \in {JUndef, JArr(<<>>), JArr(<<JStr("a")>>)},
        items \in {JUndef, JArr(<<>>), JArr(<<ConstA>>)},
        logicalOperator \in {JUndef, JStr("or")}}

\* the fragments put below others
Inner ==
    {Fragment(<< <<"type", type>>, <<"nullable", nullable>>, <<"items", items>>,
                 <<"logicalOperator", JStr("or")>> >>) :
        type \in {JStr("string"), JStr("enum"), JStr("unknown")},
        nullable \in {JUndef, JBool(TRUE)},
        items \in {JUndef, JArr(<<>>)}}
    \cup {Fragment(<< <<"enum", JArr(<<>>)>> >>), Fragment(<< <<"enum", JArr(<<JStr("a")>>)>> >>)}

Requireds == {JUndef, JArr(<<>>), JArr(<<JStr("a")>>), JArr(<<JStr("a"), JStr("b")>>)}

Parents ==
    {Fragment(<< <<"type", JStr("object")>>, <<"properties", properties>>,
                 <<"required", required>> >>) :
        properties \in {JUndef} \cup {JObj(<< <<"a", f>> >>) : f \in Inner},
        required \in Requireds}
    \cup {Fragment(<< <<"type", JStr("object")>>, <<"additionalProperties", a>> >>) :
            a \in Inner \cup {JBool(TRUE)}}
    \cup {Fragment(<< <<"type", type>>, <<"items", f>>, <<"example", JStr("a")>> >>) :
            type \in {JUndef, JStr("array")},
            f \in Inner \cup {JArr(<<g, TypeOnly("string")>>) : g \in Inner}}
    \cup {Fragment(<< <<key, JArr(<<f>>)>> >>) : key \in {"allOf", "anyOf", "oneOf"}, f \in Inner}

\* single-const items of the given values
ConstItems(enumValues) ==
    JArr([i \in 1..Len(enumValues) |-> JObj(<< <<"const", enumValues[i]>> >>)])

\* items that hold a const beside another keyword
TypedConstItems(enumValues) ==
    JArr([i \in 1..Len(enumValues) |->
            JObj(<< <<"type", JStr("string")>>, <<"const", enumValues[i]>> >>)])

EnumValueLists == {<<JStr("a")>>, <<JStr("a"), JStr("b")>>, <<JStr("b"), JStr("a")>>}

\* the three enum shapes, and item lists whose entries hold more than a const
EnumFragments ==
    UNION {{Fragment(<< <<"type", type>>, <<"enum", JArr(enumValues)>> >>),
            Fragment(<< <<"type", JStr("enum")>>, <<"items", ConstItems(enumValues)>> >>),
            Fragment(<< <<"items", ConstItems(enumValues)>> >>),
            Fragment(<< <<"type", type>>, <<"items", TypedConstItems(enumValues)>> >>),
            Fragment(<< <<"type", JStr("array")>>, <<"items", TypedConstItems(enumValues)>> >>)} :
        enumValues \in EnumValueLists, type \in {JUndef, JStr("string")}}

RawFragments == Leaves \cup Parents \cup EnumFragments

\* collectSchemas on one entry of all
Collect(irSchema) ==
    /\ syn' = [engine |-> "canon", pc |-> "done", ir |-> irSchema,
               converted |-> irToSchema(irSchema), meta |-> SchemaMeta(irSchema)]
    /\ UNCHANGED <<regVars, canonVars>>

NextCollect == \E irSchema \in RawFragments : Collect(irSchema)

SpecCollect == InitSynth /\ [][NextCollect]_vars

-----------------------------------------------------------------------------
(* the handler that registers as it goes: resolveRefs, normalizeTopLevelEnum,
   normalizeObjectProperties and registerSchemaDef on schema objects that are shared by
   reference.  A schema object is a cell of a heap; a name is a sequence of tokens, the
   last of which may be the suffix "Schema" *)

SchemaSuffix == "Schema"

Node(type, ref, props, values) ==
    [type |-> type, ref |-> ref, props |-> props, values |-> values, flat |-> FALSE]

\* allSchemas[refPath] || allSchemas[`${refPath}Schema`]; 0 when there is neither
Lookup(schemas, refPath) ==
    LET At(name) == {i \in 1..Len(schemas) : schemas[i][1] = name}
    IN  IF At(<<refPath>>) # {} THEN schemas[CHOOSE i \in At(<<refPath>>) : TRUE][2]
        ELSE IF At(<<refPath, SchemaSuffix>>) # {}
        THEN schemas[CHOOSE i \in At(<<refPath, SchemaSuffix>>) : TRUE][2]
        ELSE 0

RECURSIVE resolveRefs(_, _, _, _)
RECURSIVE ResolveProperties(_, _, _, _, _)

\* resolveRefs(schema, allSchemas, seen): the object returned, with the heap and the
\* seen set as the call leaves them
resolveRefs(hp, schemas, id, sn) ==
    IF id \in sn THEN [heap |-> hp, seen |-> sn, out |-> id]
    ELSE IF hp[id].ref # <<>>
    THEN LET resolved == Lookup(schemas, RefName(hp[id].ref))
         IN  IF resolved = 0 THEN [heap |-> hp, seen |-> sn \cup {id}, out |-> id]
             ELSE resolveRefs(hp, schemas, resolved, sn \cup {id})
    ELSE ResolveProperties(hp, schemas, id, sn \cup {id}, 1)

\* schema.properties[key] = resolveRefs(schema.properties[key], allSchemas, seen)
ResolveProperties(hp, schemas, id, sn, i) ==
    IF i > Len(hp[id].props) THEN [heap |-> hp, seen |-> sn, out |-> id]
    ELSE LET r == resolveRefs(hp, schemas, hp[id].props[i][2], sn)
         IN  ResolveProperties(
                 [r.heap EXCEPT ![id].props[i] = <<hp[id].props[i][1], r.out>>],
                 schemas, id, r.seen, i + 1)

\* type 'enum', or items that all hold a const beside no enum keyword; values are the
\* consts of the items until the schema is flattened, and the enum keyword afterwards
isInternalEnumSchema(node) ==
    \/ node.type = "enum"
    \/ ~node.flat /\ node.values # <<>>

\* { ...schema, type: jsonType, enum: enumValues, items: undefined }
flattenEnumSchema(node) ==
    LET primitiveTypes == {TypeOfValue(node.values[i]) : i \in 1..Len(node.values)}
        inferredType == IF Cardinality(primitiveTypes) = 1
                        THEN CHOOSE t \in primitiveTypes : TRUE ELSE "string"
    IN  [node EXCEPT !.type = IF inferredType \in {"number", "integer", "boolean"}
                              THEN inferredType ELSE "string",
                     !.flat = TRUE]

\* the first free cell
Fresh(hp) == (CHOOSE id \in DOMAIN hp : \A other \in DOMAIN hp : other <= id) + 1

RECURSIVE NormalizeFrom(_, _, _)
\* normalizeObjectProperties: an internal enum property is replaced by its flattened copy
NormalizeFrom(hp, id, i) ==
    IF i > Len(hp[id].props) THEN hp
    ELSE LET prop == hp[id].props[i]
         IN  IF isInternalEnumSchema(hp[prop[2]])
             THEN NormalizeFrom(
                      [hp EXCEPT ![id].props[i] = <<prop[1], Fresh(hp)>>]
                          @@ (Fresh(hp) :> flattenEnumSchema(hp[prop[2]])),
                      id, i + 1)
             ELSE NormalizeFrom(hp, id, i + 1)

normalizeObjectProperties(hp, id) == NormalizeFrom(hp, id, 1)

RECURSIVE Reaches(_, _, _)
\* the object graph below id comes back to a cell of path
Reaches(hp, id, path) ==
    \/ id \in path
    \/ \E i \in 1..Len(hp[id].props) : Reaches(hp, hp[id].props[i][2], path \cup {id})

RECURSIVE ValueOf(_, _)
\* the JSON value of a schema object; deepSort never returns on a cyclic one
ValueOf(hp, id) ==
    LET node == hp[id]
    IN  IF Reaches(hp, id, {}) THEN JThrow("RangeError")
        ELSE IF node.ref # <<>> THEN JObj(<< <<"$ref", JStr(node.ref[1] \o node.ref[2])>> >>)
        ELSE IF node.flat
        THEN JObj(<< <<"type", JStr(node.type)>>, <<"items", JUndef>>,
                     <<"enum", JArr(node.values)>> >>)
        ELSE IF node.type = "enum" \/ node.values # <<>>
        THEN JObj(FilterDefined(
                  << <<"type", IF node.type = "" THEN JUndef ELSE JStr(node.type)>>,
                     <<"items", JArr([i \in 1..Len(node.values) |->
                                        JObj(<< <<"const", node.values[i]>> >>)])>> >>))
        ELSE IF node.type = "object"
        THEN JObj(<< <<"type", JStr("object")>>,
                     <<"properties", JObj([i \in 1..Len(node.props) |->
                                            <<node.props[i][1], ValueOf(hp, node.props[i][2])>>])>> >>)
        ELSE TypeOnly(node.type)

\* schemaName.replace(/Schema$/, '')
StripSchema(name) ==
    IF name # <<>> /\ name[Len(name)] = SchemaSuffix THEN SubSeq(name, 1, Len(name) - 1)
    ELSE name

\* the kinds of property a raw schema of the pool may have
KidShapes == {"string", "enum", "consts", "refA", "refB", "refMissing"}

KidNode(shape) ==
    CASE shape = "string" -> Node("string", <<>>, <<>>, <<>>)
      [] shape = "enum" -> Node("enum", <<>>, <<>>, <<JStr("x")>>)
      [] shape = "consts" -> Node("", <<>>, <<>>, <<JStr("x")>>)
      [] shape = "refA" -> Node("", <<RefPrefix, "A">>, <<>>, <<>>)
      [] shape = "refB" -> Node("", <<RefPrefix, "B">>, <<>>, <<>>)
      [] shape = "refMissing" -> Node("", <<RefPrefix, "Missing">>, <<>>, <<>>)

\* a raw schema: a string, an internal enum, a reference, or an object of one or two properties
TopShapes ==
    {<<"string">>, <<"enum">>, <<"refB">>} \cup {<<"object", a>> : a \in KidShapes}
        \cup {<<"object", a, b>> : a \in KidShapes, b \in {"string", "enum", "refB"}}

\* the cells of raw schema number n: the schema at n, its properties at 10 n + j
Cells(n, shape) ==
    IF shape[1] = "object"
    THEN (n :> Node("object", <<>>,
                    [j \in 1..(Len(shape) - 1) |-> <<PropKeys[j], 10 * n + j>>], <<>>))
         @@ [id \in {10 * n + j : j \in 1..(Len(shape) - 1)} |-> KidNode(shape[id - 10 * n + 1])]
    ELSE (n :> KidNode(shape[1]))

SecondNames == {<<"B">>, <<"B", SchemaSuffix>>, <<"A", SchemaSuffix>>}

MaxBuilds == 2

\* handler: the schemas of the plugin's events, an empty registration context
HandlerStart(first, second, name) ==
    /\ syn.pc = "idle"
    /\ syn' = [engine |-> "handler", pc |-> "loop",
               schemas |-> << <<<<"A">>, 1>>, <<name, 2>> >>,
               heap |-> Cells(1, first) @@ Cells(2, second),
               next |-> 1, ctx |-> EmptyCtx, refs |-> <<>>, builderSchemas |-> <<>>,
               output |-> <<>>, built |-> <<>>]
    /\ UNCHANGED <<regVars, canonVars>>

\* one turn of the loop over Object.entries(schemas)
HandlerRegister ==
    /\ syn.engine = "handler" /\ syn.pc = "loop"
    /\ syn.next <= Len(syn.schemas)
    /\ LET schemaName == syn.schemas[syn.next][1]
           r == resolveRefs(syn.heap, syn.schemas, syn.schemas[syn.next][2], {})
           typeName == Trim(StripSchema(schemaName))
           isEnumSchema == isInternalEnumSchema(r.heap[r.out])
           flattened == r.heap @@ (Fresh(r.heap) :> flattenEnumSchema(r.heap[r.out]))
           schemaForConst == IF isEnumSchema THEN Fresh(r.heap) ELSE r.out
           normalized == IF isEnumSchema THEN flattened
                         ELSE normalizeObjectProperties(r.heap, schemaForConst)
           value == ValueOf(normalized, schemaForConst)
           schemaConst == registerSymbol(syn.ctx, value, typeName)
       IN  IF value.k = "throw"
           THEN syn' = [syn EXCEPT !.pc = "thrown", !.heap = normalized]
           ELSE syn' = [syn EXCEPT
                   !.heap = normalized,
                   !.ctx = registerCtx(syn.ctx, value, typeName),
                   !.refs = IF registerHit(syn.ctx, value) THEN syn.refs
                            ELSE [n \in DOMAIN syn.refs \cup {schemaConst} |->
                                    IF n = schemaConst THEN schemaForConst ELSE syn.refs[n]],
                   !.builderSchemas = Append(syn.builderSchemas,
                        [typeName |-> typeName, isEnum |-> isEnumSchema, schemaConst |-> schemaConst]),
                   !.next = syn.next + 1]
    /\ UNCHANGED <<regVars, canonVars>>

\* 'const schemas = ' + JSON.stringify(ctx.schemaDefs), the builder classes, file.add
HandlerEmit ==
    /\ syn.engine = "handler" /\ syn.pc = "loop"
    /\ syn.next > Len(syn.schemas)
    /\ syn' = [syn EXCEPT !.pc = "emitted",
                          !.output = [n \in DOMAIN syn.refs |-> ValueOf(syn.heap, syn.refs[n])]]
    /\ UNCHANGED <<regVars, canonVars>>

\* a builder class that exists as soon as its schema is registered
CanBuildAnytime(state) == state.builderSchemas # <<>>

\* a builder class exists once the file has been added
CanBuild(state) == state.pc = "emitted"

\* build() of a generated builder: generateMock(schemas[schemaConst], ...)
Build(i) ==
    /\ syn.engine = "handler"
    /\ CanBuild(syn)
    /\ i \in 1..Len(syn.builderSchemas)
    /\ Len(syn.built) < MaxBuilds
    /\ syn' = [syn EXCEPT !.built = Append(syn.built, syn.builderSchemas[i].schemaConst)]
    /\ UNCHANGED <<regVars, canonVars>>

NextHandler ==
    \/ \E first \in TopShapes, second \in TopShapes, name \in SecondNames :
            HandlerStart(first, second, name)
    \/ HandlerRegister
    \/ HandlerEmit
    \/ \E i \in 1..2 : Build(i)

SpecHandler == InitSynth /\ [][NextHandler]_vars

-----------------------------------------------------------------------------
(* the build() of a zod-strategy builder: generateZodObjectBuild embeds what
   generateZodSchema returns, and build() hands it to generateMockFromZodSchema *)

\* `${typeName}Schema`
ZodSchemaName(typeName) == typeName \o <<"S", "c", "h", "e", "m", "a">>

\* ZodSchemaGenerator.generate: the schemaDefs map afterwards and the value returned
generate(schemaDefs, schema, typeName) ==
    LET schemaName == ZodSchemaName(typeName)
    IN  IF schemaName \in DOMAIN schemaDefs
        THEN [schemaDefs |-> schemaDefs, out |-> schemaName]
        ELSE [schemaDefs |-> schemaDefs @@ (schemaName :> generateZodSchemaInternal(schema)),
              out |-> schemaName]

\* generateZodSchema: a new generator, generator.generate(schema, 'schema')
generateZodSchema(schema) == generate(<<>>, schema, <<"s", "c", "h", "e", "m", "a">>).out

BuildSchemas == SynSchemas \cup {SString, SAny, SNull}

\* generateZodObjectBuild(typeName, schema), then build() of the class it is part of
ZodObjectBuild(schema, overrides, options, rnd) ==
    /\ syn.pc = "idle"
    /\ LET zodSchemaString == generateZodSchema(schema)
       IN  syn' = [engine |-> "zod", pc |-> "done", schema |-> schema,
                   text |-> zodSchemaString, options |-> options, overrides |-> overrides,
                   draws |-> rnd,
                   result |-> generateFromSchemaString(ZodMockGenerator(options),
                                                       zodSchemaString, overrides, rnd, 1).v]
    /\ UNCHANGED <<regVars, canonVars>>

NextZodBuild ==
    \E schema \in BuildSchemas, overrides \in Overrides, options \in ZodMockOptions,
       rnd \in RandomStreams :
        ZodObjectBuild(schema, overrides, options, rnd)

SpecZodBuild == InitSynth /\ [][NextZodBuild]_vars

\* ---------------------------------------------------------------------------
\* Arrays: the static generator, the Zod writer and the array branch of the
\* reader, with exact item counts
\* ---------------------------------------------------------------------------

\* { type: 'array', items, minItems, maxItems }; an absent key is JUndef
ArrSch(items, minItems, maxItems) ==
    [type |-> "array", items |-> items, minItems |-> minItems, maxItems |-> maxItems]

\* generateStaticArray: the elements of the array literal it prints
generateStaticArray(schema) ==
    IF schema.items = JUndef THEN JArr(<<>>)
    ELSE LET minItems == IF schema.minItems # JUndef THEN schema.minItems.n \div 10000 ELSE 1
             itemCount == IF minItems > 1 THEN minItems ELSE 1
             itemMock == generateStaticMockInternal(schema.items)
         IN JArr([i \in 1..itemCount |-> itemMock])

\* generateZodArray, with the constants of ZOD_STRINGS
generateZodArray(schema) ==
    LET itemType == IF schema.items = JUndef THEN ZOD_UNKNOWN
                    ELSE generateZodSchemaInternal(schema.items)
    IN ZOD_ARRAY \o itemType \o <<")">>
         \o BoundText(ZOD_MIN, schema.minItems) \o BoundText(ZOD_MAX, schema.maxItems)

\* the notation z.array(S).min(m).max(n) itself
ArrayNotation(fragment, minItems, maxItems) ==
    ZOD_ARRAY \o fragment \o <<")">>
      \o (IF minItems = JUndef THEN <<>> ELSE ZOD_MIN \o NumberText(minItems) \o <<")">>)
      \o (IF maxItems = JUndef THEN <<>> ELSE ZOD_MAX \o NumberText(maxItems) \o <<")">>)

\* generateArrayMock without overrides.items: the item text it captures, the
\* length it draws and the elements. An item text never holds 'z.object(' (the
\* dispatch sends such a text to generateObjectMock), so no element draws from
\* the random source.
generateArrayItems(opts, zodSchemaString, random) ==
    LET itemTypeMatch == MatchArgument(zodSchemaString, ZOD_ARRAY)
        minMatch == MatchDigits(zodSchemaString, ZOD_MIN)
        maxMatch == MatchDigits(zodSchemaString, ZOD_MAX)
        minLength == IF minMatch.ok THEN DigitsFrom(minMatch.s, 1, 0) ELSE 1
        maxLength == IF maxMatch.ok THEN DigitsFrom(maxMatch.s, 1, 0) ELSE 3
        length == ((random * (maxLength - minLength + 1)) \div 10) + minLength
        element == generateFromSchemaString(opts, itemTypeMatch.s, JObj(<<>>), <<random>>, 1).v
    IN IF ~itemTypeMatch.ok THEN [item |-> itemTypeMatch, v |-> JArr(<<>>)]
       ELSE [item |-> itemTypeMatch, v |-> JArr([i \in 1..length |-> element])]

\* generateFromSchemaString on an array notation: a text that holds 'z.object(' goes
\* to the object branch, which comes first
readArrayNotation(opts, zodSchemaString, rnd) ==
    IF /\ ~Includes(zodSchemaString, <<"z", ".", "o", "b", "j", "e", "c", "t", "(">>)
       /\ Includes(zodSchemaString, ZOD_ARRAY)
    THEN generateArrayItems(opts, zodSchemaString, rnd[1])
    ELSE [item |-> [ok |-> FALSE, s |-> <<>>],
          v |-> generateFromSchemaString(opts, zodSchemaString, JObj(<<>>), rnd, 1).v]

ItemSchemas == {JUndef, SString, SNull, SNested}
MinItems == {JUndef, JNum(Units(0)), JNum(Units(2)), JNum(Units(5))}
MaxItems == {JUndef, JNum(Units(0)), JNum(Units(2)), JNum(Units(6))}
\* the options an array mock is built under
ArrayOptions == {options \in ZodMockOptions : options.alwaysIncludeOptionals = JUndef}
ArraySchemas ==
    {ArrSch(items, minItems, maxItems) :
        items \in ItemSchemas, minItems \in MinItems, maxItems \in MaxItems}

\* the static mock of an array schema
StaticArray(schema) ==
    /\ syn.pc = "idle"
    /\ syn' = [engine |-> "staticArray", pc |-> "done", schema |-> schema,
               result |-> generateStaticArray(schema)]
    /\ UNCHANGED <<regVars, canonVars>>

\* the Zod mock of an array schema: the text is the one generateZodArray writes
\* (written) or the notation z.array(S).min(m).max(n) of the same schema
ZodArray(schema, written, options, rnd) ==
    /\ syn.pc = "idle"
    /\ \E fragment \in {IF schema.items = JUndef THEN ZOD_UNKNOWN
                         ELSE generateZodSchemaInternal(schema.items)} :
       \E zodSchemaString \in {IF written THEN generateZodArray(schema)
                                ELSE ArrayNotation(fragment, schema.minItems, schema.maxItems)} :
       \E read \in {readArrayNotation(ZodMockGenerator(options), zodSchemaString, rnd)} :
           syn' = [engine |-> "zodArray", pc |-> "done", schema |-> schema,
                   written |-> written, fragment |-> fragment, text |-> zodSchemaString,
                   options |-> options, draws |-> rnd, item |-> read.item,
                   elementOfFragment |->
                       generateFromSchemaString(ZodMockGenerator(options), fragment,
                                                JObj(<<>>), rnd, 1).v,
                   result |-> read.v]
    /\ UNCHANGED <<regVars, canonVars>>

NextArr ==
    \/ \E schema \in ArraySchemas : StaticArray(schema)
    \/ \E schema \in ArraySchemas, written \in BOOLEAN, options \in ArrayOptions,
          rnd \in RandomStreams :
           ZodArray(schema, written, options, rnd)

SpecArr == InitSynth /\ [][NextArr]_vars

\* ---------------------------------------------------------------------------
\* Enumerations: the Zod writer and the enum branch of the reader
\* ---------------------------------------------------------------------------

\* JSON.stringify of a string value
RECURSIVE Escaped(_)
Escaped(str) ==
    IF str = <<>> THEN <<>>
    ELSE (IF Head(str) \in {"\"", "\\"} THEN <<"\\", Head(str)>> ELSE <<Head(str)>>)
           \o Escaped(Tail(str))

QuoteLiteral(val) == <<"\"">> \o Escaped(val) \o <<"\"">>

\* the branch of generateZodSchemaInternal for schema.enum, with the constants
\* of ZOD_STRINGS
generateZodEnum(enumValues) ==
    ZOD_ENUM \o <<"(", "[">>
      \o Join([i \in 1..Len(enumValues) |-> QuoteLiteral(enumValues[i])], <<",", " ">>)
      \o <<"]", ")">>

\* the notation z.enum([v1, ..., vn]) itself
EnumNotation(enumValues) ==
    ZOD_ENUM \o <<"[">>
      \o Join([i \in 1..Len(enumValues) |-> QuoteLiteral(enumValues[i])], <<",", " ">>)
      \o <<"]", ")">>

\* str.split(',')
RECURSIVE SplitComma(_)
SplitComma(str) ==
    LET at == {i \in 1..Len(str) : str[i] = ","}
        i0 == CHOOSE i \in at : \A j \in at : i <= j
    IN IF at = {} THEN <<str>>
       ELSE <<SubSeq(str, 1, i0 - 1)>> \o SplitComma(SubSeq(str, i0 + 1, Len(str)))

\* Number(trimmed) of a text: the empty text is 0, digits are their value
NumberOf(trimmed) ==
    IF trimmed = <<>> THEN JNum(0)
    ELSE IF \A i \in 1..Len(trimmed) : IsDigit(trimmed[i]) THEN JNum(Units(DigitsFrom(trimmed, 1, 0)))
    ELSE JNaN

\* the callback of enumMatch[1].split(',').map
EnumValue(val) ==
    LET trimmed == Trim(val)
    IN IF trimmed # <<>> /\ trimmed[1] = "\"" /\ trimmed[Len(trimmed)] = "\""
       THEN JStr(SubSeq(trimmed, 2, Len(trimmed) - 1))
       ELSE IF trimmed = <<"t", "r", "u", "e">> THEN JBool(TRUE)
       ELSE IF trimmed = <<"f", "a", "l", "s", "e">> THEN JBool(FALSE)
       ELSE IF NumberOf(trimmed) # JNaN THEN NumberOf(trimmed)
       ELSE JStr(trimmed)

\* zodSchemaString.match(/z\.enum\(\[([^\]]+)\]\)/)
EnumMatch(str) ==
    LET prefix == ZOD_ENUM \o <<"[">>
        n == Len(prefix)
        closeAfter(i) == {j \in (i + n)..Len(str) : str[j] = "]"}
        firstClose(i) == CHOOSE j \in closeAfter(i) : \A m \in closeAfter(i) : j <= m
        at == {i \in 1..(Len(str) - n) :
                 /\ SubSeq(str, i, i + n - 1) = prefix
                 /\ closeAfter(i) # {}
                 /\ firstClose(i) > i + n
                 /\ firstClose(i) < Len(str)
                 /\ str[firstClose(i) + 1] = ")"}
        i0 == CHOOSE i \in at : \A j \in at : i <= j
    IN IF at = {} THEN [ok |-> FALSE, s |-> <<>>]
       ELSE [ok |-> TRUE, s |-> SubSeq(str, i0 + n, firstClose(i0) - 1)]

generateEnumMock(zodSchemaString, random) ==
    LET enumMatch == EnumMatch(zodSchemaString)
        parts == SplitComma(enumMatch.s)
        enumValues == [i \in 1..Len(parts) |-> EnumValue(parts[i])]
    IN IF ~enumMatch.ok THEN JNull
       ELSE enumValues[((random * Len(enumValues)) \div 10) + 1]

\* generateFromSchemaString on an enum notation: the object and array branches
\* come first
readEnumNotation(opts, zodSchemaString, rnd) ==
    IF /\ ~Includes(zodSchemaString, <<"z", ".", "o", "b", "j", "e", "c", "t", "(">>)
       /\ ~Includes(zodSchemaString, ZOD_ARRAY)
       /\ Includes(zodSchemaString, ZOD_ENUM)
    THEN generateEnumMock(zodSchemaString, rnd[1])
    ELSE generateFromSchemaString(opts, zodSchemaString, JObj(<<>>), rnd, 1).v

\* the literals of an enum: plain, and with a comma, a bracket, a quote
Literals == {<<"a">>, <<"b">>, <<"a", ",", "b">>, <<"a", "]", "b">>, <<"a", "\"", "b">>}
MaxLiterals == 2
LiteralLists == UNION {[1..n -> Literals] : n \in 1..MaxLiterals}

\* the Zod mock of { enum: enumValues }: the text is the one the writer gives
\* (written) or the notation z.enum([v1, ..., vn]) of the same values
ZodEnum(enumValues, written, options, rnd) ==
    /\ syn.pc = "idle"
    /\ LET zodSchemaString == IF written THEN generateZodEnum(enumValues)
                              ELSE EnumNotation(enumValues)
       IN  syn' = [engine |-> "zodEnum", pc |-> "done", enum |-> enumValues,
                   written |-> written, text |-> zodSchemaString, draws |-> rnd,
                   options |-> options,
                   result |-> readEnumNotation(ZodMockGenerator(options), zodSchemaString, rnd)]
    /\ UNCHANGED <<regVars, canonVars>>

NextEnum ==
    \E enumValues \in LiteralLists, written \in BOOLEAN, options \in ArrayOptions,
       rnd \in RandomStreams :
        ZodEnum(enumValues, written, options, rnd)

SpecEnum == InitSynth /\ [][NextEnum]_vars

\* ---------------------------------------------------------------------------
\* Names: the typeName and constName of the metas collectSchemas returns, and
\* the Zod definitions the handler registers for them
\* ---------------------------------------------------------------------------

\* [a-zA-Z0-9_]
SafeChars ==
    {"a", "b", "c", "d", "e", "f", "g", "h", "i", "j", "k", "l", "m", "n", "o", "p", "q",
     "r", "s", "t", "u", "v", "w", "x", "y", "z",
     "A", "B", "C", "D", "E", "F", "G", "H", "I", "J", "K", "L", "M", "N", "O", "P", "Q",
     "R", "S", "T", "U", "V", "W", "X", "Y", "Z",
     "0", "1", "2", "3", "4", "5", "6", "7", "8", "9", "_"}

\* name.replace(/[^a-zA-Z0-9_]/g, '_')
safeTypeName(name) ==
    [i \in 1..Len(name) |-> IF name[i] \in SafeChars THEN name[i] ELSE "_"]

\* normalizeTypeName, as its tests fix it: a leading UI, API, HTTP, URL or ID
\* becomes Ui, Api, Http, Url or Id
AcronymPrefixes ==
    << <<<<"U", "I">>, <<"U", "i">>>>,
       <<<<"A", "P", "I">>, <<"A", "p", "i">>>>,
       <<<<"H", "T", "T", "P">>, <<"H", "t", "t", "p">>>>,
       <<<<"U", "R", "L">>, <<"U", "r", "l">>>>,
       <<<<"I", "D">>, <<"I", "d">>>> >>

normalizeTypeName(typeName) ==
    LET hit == {i \in 1..Len(AcronymPrefixes) :
                  /\ Len(typeName) >= Len(AcronymPrefixes[i][1])
                  /\ SubSeq(typeName, 1, Len(AcronymPrefixes[i][1])) = AcronymPrefixes[i][1]}
        i0 == CHOOSE i \in hit : \A j \in hit : i <= j
    IN IF hit = {} THEN typeName
       ELSE AcronymPrefixes[i0][2]
              \o SubSeq(typeName, Len(AcronymPrefixes[i0][1]) + 1, Len(typeName))

\* name.replace(/Schema$/, '')
ReplaceSchemaSuffix(name) ==
    LET suffix == <<"S", "c", "h", "e", "m", "a">>
    IN IF Len(name) >= 6 /\ SubSeq(name, Len(name) - 5, Len(name)) = suffix
       THEN SubSeq(name, 1, Len(name) - 6)
       ELSE name

\* the names of one meta of collectSchemas
MetaNames(name) ==
    LET typeName == normalizeTypeName(ReplaceSchemaSuffix(name))
    IN [name |-> name, typeName |-> typeName,
        constName |-> safeTypeName(typeName) \o <<"S", "c", "h", "e", "m", "a">>]

\* for (const m of metas) zodSchemaGenerator.generate(m.schema, m.typeName)
RECURSIVE GenerateAll(_, _, _)
GenerateAll(schemaDefs, metas, i) ==
    IF i > Len(metas) THEN schemaDefs
    ELSE GenerateAll(generate(schemaDefs, metas[i].schema, metas[i].typeName).schemaDefs,
                     metas, i + 1)

\* the names the schema events carry
SchemaNames ==
    {<<"U", "s", "e", "r">>, <<"U", "s", "e", "r", "S", "c", "h", "e", "m", "a">>,
     <<"P", "e", "t">>, <<"a", "-", "b">>, <<"a", "_", "b">>, <<"a", ".", "b">>,
     <<"U", "I", "T", "h", "e", "m", "e">>, <<"U", "i", "T", "h", "e", "m", "e">>}
MaxNames == 2
\* the entries of the raw schema map, in insertion order: the names are distinct keys
RawMaps ==
    {raw \in UNION {[1..n -> SchemaNames \X {SString, SNull}] : n \in 1..MaxNames} :
        \A i, j \in 1..Len(raw) : i # j => raw[i][1] # raw[j][1]}

\* the handler up to the Zod file: collectSchemas, then one generate per meta
CollectNames(raw) ==
    /\ syn.pc = "idle"
    /\ LET metas == [i \in 1..Len(raw) |->
                        [name |-> raw[i][1],
                         typeName |-> MetaNames(raw[i][1]).typeName,
                         constName |-> MetaNames(raw[i][1]).constName,
                         schema |-> raw[i][2]]]
       IN  syn' = [engine |-> "names", pc |-> "done", raw |-> raw, metas |-> metas,
                   schemaDefs |-> GenerateAll(<<>>, metas, 1)]
    /\ UNCHANGED <<regVars, canonVars>>

NextNames == \E raw \in RawMaps : CollectNames(raw)

SpecNames == InitSynth /\ [][NextNames]_vars

-----------------------------------------------------------------------------
(* C1 *)

RECURSIVE StructEq(_, _)
\* equal up to the order of object keys, at every depth
StructEq(x, y) ==
    IF IsObj(x) /\ IsObj(y)
    THEN /\ KeySet(x) = KeySet(y)
         /\ Len(x.e) = Len(y.e)
         /\ \A key \in KeySet(x) : StructEq(Get(x, key), Get(y, key))
    ELSE IF IsArr(x) /\ IsArr(y)
    THEN /\ Len(x.e) = Len(y.e)
         /\ \A i \in 1..Len(x.e) : StructEq(x.e[i], y.e[i])
    ELSE x = y

\* C1: two registrations of schemas that are equal up to key order at every depth
\* return the same symbol, whatever their order, their type names and the
\* registrations made in between.
C1_SameShapeSameSymbol ==
    \A i, j \in 1..Len(regLog) :
        StructEq(regLog[i].schema, regLog[j].schema) => regLog[i].symbol = regLog[j].symbol

\* two differently ordered but structurally equal schemas, registered under different
\* type names with another registration in between, got one symbol
C1_Witness ==
    \E i, j \in 1..Len(regLog) :
        /\ j > i + 1
        /\ regLog[i].schema # regLog[j].schema
        /\ StructEq(regLog[i].schema, regLog[j].schema)
        /\ HasKey(regLog[i].schema, "properties")
        /\ Len(Get(regLog[i].schema, "properties").e) = 2
        /\ regLog[i].typeName # regLog[j].typeName
        /\ regLog[i + 1].symbol # regLog[i].symbol
        /\ regLog[i].symbol = regLog[j].symbol

-----------------------------------------------------------------------------
(* C2 *)

\* the call sites of the graph: one per property or items fragment, one per $ref
\* whose target exists; each is reached at most once, after the outermost call
CallSites(a) ==
    LET RefSites(sh) == IF sh.kind = "ref" /\ sh.to \in DOMAIN a THEN 1 ELSE 0
        RECURSIVE KidSites(_, _)
        KidSites(kids, i) ==
            IF i > Len(kids) THEN 0 ELSE 1 + RefSites(kids[i]) + KidSites(kids, i + 1)
        RECURSIVE Sum(_)
        Sum(S) == IF S = {} THEN 0
                  ELSE LET n == CHOOSE n \in S : TRUE
                       IN RefSites(a[n]) + KidSites(a[n].kids, 1) + Sum(S \ {n})
    IN Sum(DOMAIN a)

\* C2: canonicalizing a graph, also one whose $ref points to a fragment on the
\* call chain, makes at most one call per call site plus the outermost one, always
\* has a next step until the outermost call returns, and returns an object
C2_CycleTerminates ==
    cpc # "idle" =>
        /\ calls <= 1 + CallSites(all)
        /\ Len(stack) <= calls
        /\ cpc = "run" => ENABLED NextCanon
        /\ cpc = "done" => IsObj(result)

\* a canonicalization that returned after the guard cut a $ref to a fragment on
\* the call chain
C2_Witness ==
    /\ cpc = "done"
    /\ \E h \in hits : h.active
    /\ HasKey(result, "type")
    /\ calls >= 3

-----------------------------------------------------------------------------
(* C3 *)

OnStack(stk) == {stk[i].ir : i \in 1..Len(stk)}

\* C3: while the outermost call runs, the seen set holds exactly the fragments whose canonicalization is in
\* progress: every fragment past the guard and not yet returning is a member, and
\* every member belongs to a call still on the stack
C3_SeenIsActiveStack ==
    cpc = "run" =>
        /\ Active(stack) \subseteq seen
        /\ seen \subseteq OnStack(stack)

-----------------------------------------------------------------------------
(* C4 *)

\* the canonicalization of a fragment when the guard holds the fragments of chain
RECURSIVE Canonical(_, _)
Canonical(id, chain) ==
    IF id \in chain THEN Unknown
    ELSE IF Frag(id).kind = "ref"
    THEN IF Frag(id).to \in DOMAIN all
         THEN Canonical(<<Frag(id).to>>, chain \cup {id})
         ELSE Unknown
    ELSE IF Frag(id).kind = "object"
    THEN JObj(<< <<"type", JStr("object")>>,
                 <<"properties",
                   JObj([i \in 1..Len(Kids(id)) |->
                            <<PropKeys[i], Canonical(Kids(id)[i], chain \cup {id})>>])>> >>)
    ELSE IF Frag(id).kind = "array"
    THEN JObj(<< <<"type", JStr("array")>>,
                 <<"items", Canonical(Kids(id)[1], chain \cup {id})>> >>)
    ELSE JObj(<< <<"type", JStr("string")>> >>)

\* C4: every $ref call whose target exists and is not on the call chain returned
\* the canonicalization of the target, taken either on its own or below the chain
\* of that call
C4_RefYieldsTarget ==
    \A e \in refLog :
        (/\ Frag(e.ref).to \in DOMAIN all
         /\ <<Frag(e.ref).to>> \notin e.chain
         /\ e.ref \notin e.chain)
        => e.value \in {Canonical(<<Frag(e.ref).to>>, {}),
                        Canonical(<<Frag(e.ref).to>>, e.chain \cup {e.ref})}

-----------------------------------------------------------------------------
(* C5 *)

Declared(schema) == {schema.properties.e[i][1] : i \in 1..Len(schema.properties.e)}
Optionals(schema) == Declared(schema) \ schema.required

\* C5: in every engine the built object holds, at every key of the override map,
\* the value the map gives it
C5_OverrideWins ==
    syn.pc = "done" =>
        \A i \in 1..Len(syn.overrides.e) :
            Get(syn.result, syn.overrides.e[i][1]) = syn.overrides.e[i][2]

-----------------------------------------------------------------------------
(* C6 *)

\* C6: for required = [a] and properties = {a, b}, a synthesis that is required-only
\* (the static engine, and the runtime engine with requiredOnly resolved to true)
\* holds key a and does not hold key b
C6_RequiredOnly ==
    (/\ syn.pc = "done"
     /\ \/ syn.engine = "static"
        \/ syn.engine = "runtime" /\ syn.opts.requiredOnly = JBool(TRUE)
     /\ Declared(syn.schema) = {KeyA, KeyB}
     /\ syn.schema.required = {KeyA})
    => HasKey(syn.mock, KeyA) /\ ~HasKey(syn.mock, KeyB)

\* a runtime synthesis with requiredOnly: true that would otherwise force every
\* optional property in
C6_Witness ==
    /\ syn.pc = "done" /\ syn.engine = "runtime"
    /\ syn.options.requiredOnly = JBool(TRUE)
    /\ syn.options.alwaysFakeOptionals = JBool(TRUE)
    /\ syn.schema.required = {KeyA}
    /\ Declared(syn.schema) = {KeyA, KeyB}
    /\ KeySet(syn.mock) = {KeyA}

-----------------------------------------------------------------------------
(* C7 *)

\* C7: in every engine and under every policy the synthesized object holds every
\* property named in required
C7_RequiredPresent ==
    syn.pc = "done" =>
        \A key \in syn.schema.required \cap Declared(syn.schema) : HasKey(syn.mock, key)

-----------------------------------------------------------------------------
(* C8 *)

\* the engines that take a policy, and whether the policy forces the optionals in
TakesPolicy == syn.pc = "done" /\ syn.engine \in {"zod", "runtime"}
Forced ==
    IF syn.engine = "zod" THEN syn.options.alwaysIncludeOptionals = JBool(TRUE)
    ELSE syn.options.alwaysFakeOptionals = JBool(TRUE)

\* C8: with optionalsProbability 0 and the optionals not forced in, the synthesized
\* object holds no optional property, but for the keys the override map holds
C8_NoOptionalAtZero ==
    (/\ TakesPolicy
     /\ syn.options.optionalsProbability = JNum(0)
     /\ ~Forced)
    => \A key \in Optionals(syn.schema) :
          Get(syn.overrides, key) = JUndef => ~HasKey(syn.mock, key)

-----------------------------------------------------------------------------
(* C9 *)

\* C9: with optionalsProbability 1, the optionals not forced in and requiredOnly
\* false, the synthesized object holds every optional property; omitNulls, which
\* is there to drop the null-valued ones, is taken to be off
C9_AllOptionalsAtOne ==
    (/\ TakesPolicy
     /\ syn.options.optionalsProbability = JNum(10)
     /\ ~Forced
     /\ syn.engine = "runtime" => syn.options.requiredOnly = JBool(FALSE)
     /\ syn.options.omitNulls # JBool(TRUE))
    => \A key \in Optionals(syn.schema) : HasKey(syn.mock, key)

-----------------------------------------------------------------------------
(* C10 *)

-----------------------------------------------------------------------------
(* C11 *)

NumDone == syn.pc = "done" /\ syn.engine \in {"zod", "static"}
NoExclusive(schema) == schema.exclusiveMinimum = JUndef /\ schema.exclusiveMaximum = JUndef
NoInclusive(schema) == schema.minimum = JUndef /\ schema.maximum = JUndef

\* C11: the value synthesized for a number or integer schema with minimum m and/or
\* maximum M, and no exclusive bound, is a number with m <= v and v <= M
C11_WithinBounds ==
    (NumDone /\ NoExclusive(syn.schema)) =>
        /\ syn.schema.minimum # JUndef =>
              syn.value # JNaN /\ syn.schema.minimum.n <= syn.value.n
        /\ syn.schema.maximum # JUndef =>
              syn.value # JNaN /\ syn.value.n <= syn.schema.maximum.n

-----------------------------------------------------------------------------
(* C12 *)

\* C12: the value synthesized for a number or integer schema with exclusiveMinimum e
\* and/or exclusiveMaximum E, and no inclusive bound, is a number with v > e and
\* v < E
C12_StrictlyWithin ==
    (NumDone /\ NoInclusive(syn.schema)) =>
        /\ syn.schema.exclusiveMinimum # JUndef =>
              syn.value # JNaN /\ syn.value.n > syn.schema.exclusiveMinimum.n
        /\ syn.schema.exclusiveMaximum # JUndef =>
              syn.value # JNaN /\ syn.value.n < syn.schema.exclusiveMaximum.n

-----------------------------------------------------------------------------
(* C13 *)

\* 8-4-4-4-12 hexadecimal digits, version nibble 4, variant nibble in {8, 9, a, b}
IsUuidV4(str) ==
    /\ Len(str) = 36
    /\ \A i \in 1..36 :
          IF i \in {9, 14, 19, 24} THEN str[i] = "-"
          ELSE \E h \in 1..16 : HexChars[h] = str[i]
    /\ str[15] = "4"
    /\ str[20] \in {"8", "9", "a", "b"}

-----------------------------------------------------------------------------
(* C14 *)

\* C14: the object built for the intersection of { properties: { x }, required: [x] }
\* and { properties: { y } } holds x, in every engine
C14_IntersectionKeepsRequired ==
    syn.pc = "done" => IsObj(syn.result) /\ HasKey(syn.result, KeyX)

-----------------------------------------------------------------------------
(* C15 *)

\* the kind of a synthesized value
Kind(value) ==
    IF IsObj(value) THEN "object"
    ELSE IF value.k = "some" THEN value.of
    ELSE IF value.k = "str" THEN "string"
    ELSE value.k

\* C15: for an object schema whose properties are all required, built with no
\* overrides, the value read back from the notation text has the keys the schema
\* synthesized directly has, each with a value of the same kind
C15_PathsAgree ==
    (/\ syn.pc = "done" /\ syn.engine = "zod"
     /\ syn.overrides = JObj(<<>>)
     /\ syn.schema.properties.has
     /\ syn.schema.required = Declared(syn.schema))
    => LET direct == generateStaticMockInternal(syn.schema)
       IN /\ KeySet(syn.result) = KeySet(direct)
          /\ \A key \in KeySet(direct) :
                Kind(Get(syn.result, key)) = Kind(Get(direct, key))

-----------------------------------------------------------------------------
(* C16 *)

\* the constructors generateFromSchemaString looks for
Constructors ==
    {<<"z", ".", "o", "b", "j", "e", "c", "t", "(">>, <<"z", ".", "a", "r", "r", "a", "y", "(">>,
     <<"z", ".", "e", "n", "u", "m", "(">>, <<"z", ".", "s", "t", "r", "i", "n", "g", "(", ")">>,
     <<"z", ".", "n", "u", "m", "b", "e", "r", "(", ")">>,
     <<"z", ".", "b", "o", "o", "l", "e", "a", "n", "(", ")">>,
     <<"z", ".", "u", "n", "i", "o", "n", "(">>, <<"z", ".", "n", "u", "l", "l", "(", ")">>}

\* what the reader cannot read: a text with no constructor in it, an object
\* constructor with no body to extract, an array constructor with no item type
NotRecognized(str) ==
    \/ \A c \in Constructors : ~Includes(str, c)
    \/ /\ Includes(str, <<"z", ".", "o", "b", "j", "e", "c", "t", "(">>)
       /\ ~extractObjectProperties(str).ok
    \/ /\ ~Includes(str, <<"z", ".", "o", "b", "j", "e", "c", "t", "(">>)
       /\ Includes(str, <<"z", ".", "a", "r", "r", "a", "y", "(">>)
       /\ ~MatchArgument(str, <<"z", ".", "a", "r", "r", "a", "y", "(">>).ok

\* C16: the reader throws on no text, and gives null for a text it cannot read
C16_ReaderNeverThrows ==
    syn.pc = "done" =>
        /\ syn.result.k # "throw"
        /\ NotRecognized(syn.text) => syn.result = JNull

-----------------------------------------------------------------------------
(* C17 *)

Collected == syn.pc = "done" /\ syn.engine = "canon"

\* C17: a raw fragment with nullable = true and a single concrete type T canonicalizes
\* to a node without a nullable flag whose type is exactly [T, 'null'], and no node of
\* a canonical result carries nullable = true
C17_NullableFolded ==
    Collected =>
        /\ \A node \in Nodes(syn.meta.schema) : Get(node, "nullable") # JBool(TRUE)
        /\ (Get(syn.ir, "nullable") = JBool(TRUE) /\ Get(syn.ir, "type") = JStr("string")) =>
              /\ ~HasKey(syn.meta.schema, "nullable")
              /\ Get(syn.meta.schema, "type") = JArr(<<JStr("string"), JStr("null")>>)

-----------------------------------------------------------------------------
(* C18 *)

\* C18: in every canonical schema, each name listed in required of a node has an
\* entry in properties of that same node
C18_RequiredHasProperty ==
    Collected =>
        \A node \in Nodes(syn.meta.schema) :
            IsArr(Get(node, "required")) =>
                \A name \in Elements(Get(node, "required")) :
                    /\ IsObj(Get(node, "properties"))
                    /\ name.s \in KeySet(Get(node, "properties"))

-----------------------------------------------------------------------------
(* C19 *)

\* the raw enum shapes with no value: enum: [], or type 'enum' whose items hold no const
EmptyEnum(ir) ==
    \/ Get(ir, "enum") = JArr(<<>>)
    \/ /\ Get(ir, "type") = JStr("enum")
       /\ ~IsArr(Get(ir, "enum"))
       /\ Get(ir, "nullable") = JUndef
       /\ ~(IsArr(Get(ir, "items")) /\ \E it \in Elements(Get(ir, "items")) : HasConst(it))

\* C19: a raw enum fragment with an empty value list canonicalizes to an unconstrained
\* string schema, and no node of a canonical result is an enum with zero values or a
\* union or intersection with zero branches
C19_EmptyEnumIsString ==
    Collected =>
        /\ EmptyEnum(syn.ir) => syn.meta.schema = TypeOnly("string")
        /\ \A node \in Nodes(syn.meta.schema) :
              \A key \in {"enum", "anyOf", "oneOf", "allOf"} : Get(node, key) # JArr(<<>>)

-----------------------------------------------------------------------------
(* C20 *)

\* a type, alone or in a type list
TypesOf(node) ==
    LET type == Get(node, "type")
    IN  IF IsArr(type) THEN Elements(type) ELSE {type}

\* C20: in the output of irToSchema, then normalizeSchema, then sanitizeSchema, no node
\* at any depth carries type 'enum' (alone or in a type list), type 'unknown' or a
\* logicalOperator marker
C20_NoInternalMarkers ==
    Collected =>
        \A node \in Nodes(syn.meta.schema) :
            /\ JStr("enum") \notin TypesOf(node)
            /\ Get(node, "type") # JStr("unknown")
            /\ ~HasKey(node, "logicalOperator")

-----------------------------------------------------------------------------
(* C21 *)

\* the registration that minted the symbol of registration i
MintOf(i) == CHOOSE j \in 1..i :
    /\ regLog[j].symbol = regLog[i].symbol
    /\ \A h \in 1..(j - 1) : regLog[h].symbol # regLog[i].symbol

\* C21: after any sequence of register calls every symbol minted so far still maps to
\* the schema it was minted for, and a registration of a structurally different schema
\* got a symbol of its own (a numeric suffix when the base name was taken)
C21_SymbolsKeepTheirSchema ==
    /\ \A i \in 1..Len(regLog) :
          /\ regLog[i].symbol \in DOMAIN ctx.schemaDefs
          /\ ctx.schemaDefs[regLog[i].symbol] = regLog[MintOf(i)].schema
    /\ \A i, j \in 1..Len(regLog) :
          ~StructEq(regLog[i].schema, regLog[j].schema) => regLog[i].symbol # regLog[j].symbol

\* three structurally different schemas registered under one type name: the second and
\* the third got suffixed symbols
C21_Witness ==
    /\ Len(regLog) = 3
    /\ \A i, j \in 1..3 :
          /\ regLog[i].typeName = regLog[j].typeName
          /\ i # j => ~StructEq(regLog[i].schema, regLog[j].schema)
    /\ regLog[1].symbol = getSchemaConstName(regLog[1].typeName)
    /\ regLog[2].symbol = getSchemaConstName(regLog[1].typeName) \o <<"_", "1">>
    /\ regLog[3].symbol = getSchemaConstName(regLog[1].typeName) \o <<"_", "2">>

-----------------------------------------------------------------------------
(* C22 *)

\* C22: once a schema is stored in the registry, no later reference resolution,
\* normalization or registration done for another schema modifies it: every registry
\* entry still has the value it was stored with
C22_StoredNodesUnchanged ==
    syn.engine = "handler" =>
        \A n \in DOMAIN syn.refs : ValueOf(syn.heap, syn.refs[n]) = syn.ctx.schemaDefs[n]

-----------------------------------------------------------------------------
(* C23 *)

-----------------------------------------------------------------------------
(* C24 *)

\* C24: a $ref whose target name is absent from the schemas canonicalizes to the unknown
\* schema at its position: nothing is thrown and the $ref is not left in the output
C24_MissingRefIsUnknown ==
    (syn.engine = "handler" /\ syn.pc = "emitted") =>
        \A n \in DOMAIN syn.output :
            /\ syn.output[n].k # "throw"
            /\ \A node \in Nodes(syn.output[n]) :
                  Get(node, "$ref") # JStr(RefPrefix \o "Missing")

-----------------------------------------------------------------------------
(* C25 *)

\* the literal values an enum fragment carries: its enum list, else the consts of its items
CarriedValues(ir) ==
    IF IsArr(Get(ir, "enum")) THEN Get(ir, "enum").e
    ELSE IF IsArr(Get(ir, "items"))
    THEN [i \in 1..Len(Get(ir, "items").e) |-> Get(Get(ir, "items").e[i], "const")]
    ELSE <<>>

\* one of the three source shapes: an enum list, type 'enum' with single-const items, or
\* items that each hold one const and nothing else
EnumShape(ir) ==
    \/ IsArr(Get(ir, "enum"))
    \/ /\ IsArr(Get(ir, "items"))
       /\ Get(ir, "type") \in {JUndef, JStr("enum")}
       /\ \A it \in Elements(Get(ir, "items")) : KeySet(it) = {"const"}

\* items with an entry that holds another keyword beside or instead of a const
OtherFields(ir) ==
    /\ ~IsArr(Get(ir, "enum"))
    /\ Get(ir, "type") # JStr("enum")
    /\ IsArr(Get(ir, "items"))
    /\ \E it \in Elements(Get(ir, "items")) : KeySet(it) # {"const"}

\* C25: the three enum source shapes canonicalize to the same node as the enum list of
\* the same ordered values, and an item list whose entries hold other fields is not
\* recognized as an enum
C25_EnumShapesUnified ==
    Collected =>
        /\ (EnumShape(syn.ir) /\ Get(syn.ir, "nullable") = JUndef
                /\ CarriedValues(syn.ir) # <<>>) =>
              /\ syn.meta.isEnum
              /\ syn.meta.schema =
                    SchemaMeta(Fragment(<< <<"enum", JArr(CarriedValues(syn.ir))>> >>)).schema
        /\ OtherFields(syn.ir) =>
              /\ ~syn.meta.isEnum
              /\ ~HasKey(syn.meta.schema, "anyOf")

-----------------------------------------------------------------------------
(* C26 *)

\* C26: generateZodSchema(schema) returns the Zod constructor text of the schema itself,
\* 'z.string()' for { type: 'string' } and 'z.unknown()' for {}, so the text a
\* zod-strategy build() reads describes that schema
C26_TextOfTheSchema ==
    (syn.pc = "done" /\ syn.engine = "zod") =>
        /\ syn.text = generateZodSchemaInternal(syn.schema)
        /\ syn.schema = SString => syn.text = ZOD_STRING
        /\ syn.schema = SAny => syn.text = ZOD_UNKNOWN

\* ---------------------------------------------------------------------------
\* C27: for every array schema the number of synthesized elements is at least
\* minItems when minItems is declared and at most maxItems when maxItems is
\* declared, whatever the random source returns (schemas whose declared bounds
\* contradict each other are left out)
\* ---------------------------------------------------------------------------
ArrayDone == syn.pc = "done" /\ syn.engine \in {"staticArray", "zodArray"}

Satisfiable(schema) ==
    (schema.minItems # JUndef /\ schema.maxItems # JUndef) => schema.minItems.n <= schema.maxItems.n

C27_LengthWithinBounds ==
    (ArrayDone /\ Satisfiable(syn.schema)) =>
        /\ syn.result.k = "arr"
        /\ syn.schema.minItems # JUndef => Len(syn.result.e) >= syn.schema.minItems.n \div 10000
        /\ syn.schema.maxItems # JUndef => Len(syn.result.e) <= syn.schema.maxItems.n \div 10000

\* ---------------------------------------------------------------------------
\* C28: reading the notation z.array(S), the reader recovers exactly S as the
\* item schema and returns an array whose every element is synthesized from S
\* ---------------------------------------------------------------------------
C28_ItemSchemaRecovered ==
    (syn.pc = "done" /\ syn.engine = "zodArray" /\ ~syn.written) =>
        /\ syn.item.ok
        /\ syn.item.s = syn.fragment
        /\ syn.result.k = "arr"
        /\ \A i \in 1..Len(syn.result.e) : syn.result.e[i] = syn.elementOfFragment

\* ---------------------------------------------------------------------------
\* C29: reading the notation z.enum([v1, ..., vn]) of an enum schema, every
\* synthesized value is one of the declared literals v1..vn, also when a
\* literal holds a comma, a bracket or a quote character
\* ---------------------------------------------------------------------------
C29_ValueIsDeclaredLiteral ==
    (syn.pc = "done" /\ syn.engine = "zodEnum" /\ ~syn.written) =>
        \E i \in 1..Len(syn.enum) : syn.result = JStr(syn.enum[i])

\* ---------------------------------------------------------------------------
\* C30: no two metas that collectSchemas returns for distinct input names share
\* a constName or a typeName, and every meta has its own Zod definition
\* ---------------------------------------------------------------------------
C30_NamesAreDistinct ==
    (syn.pc = "done" /\ syn.engine = "names") =>
        /\ \A i, j \in 1..Len(syn.metas) :
              i # j => /\ syn.metas[i].typeName # syn.metas[j].typeName
                       /\ syn.metas[i].constName # syn.metas[j].constName
        /\ \A i \in 1..Len(syn.metas) :
              /\ ZodSchemaName(syn.metas[i].typeName) \in DOMAIN syn.schemaDefs
              /\ syn.schemaDefs[ZodSchemaName(syn.metas[i].typeName)]
                    = generateZodSchemaInternal(syn.metas[i].schema)

====
